---- MODULE Spec2Model ----
(***************************************************************************)
(* Wordmark customizer and geometry kernel of brand-studio-api.             *)
(*                                                                         *)
(* Numbers.  Coordinates are fixed-point integers: one source unit is Unit  *)
(* model units, and quotients are rounded to that grid.     A path string   *)
(* (path_d) is the sequence of its tokens, as the tokenizer of              *)
(* pathDToPolygons sees them, plus the token Sep for a blank that           *)
(* Array.join(" ") puts between two paths.  A token is <<kind, value>>:     *)
(* <<"M",0>> ... <<"Z",0>> for a command, <<"#",v>> for the number v.       *)
(***************************************************************************)
EXTENDS Integers, Sequences, FiniteSets, TLC

VARIABLES
    base,          \* the caller's WordmarkBase
    plan,          \* the caller's WordmarkCustomizationPlan
    pc,            \* where customizeWordmark stands
    planNorm,      \* normalizePlan(plan)
    glyphs,        \* the first pass's working glyph runs
    used,          \* the first pass's used glyph indices
    manifest,      \* the manifest
    dev,           \* the index of the next device of the running loop
    combinedPathD, \* the first pass's recombined path
    originalArea,  \* the area of base.path_d
    metrics,       \* the metrics computed last
    glyphs2,       \* the retry's working glyph runs
    used2,         \* the retry's used glyph indices
    result,        \* the value returned (<< >> until the call returns)
    log,           \* history: what each device iteration did, per pass
    call,          \* the arguments of a function called on its own
    ret            \* what that function returned (<< >> until it returns)

vars == <<base, plan, pc, planNorm, glyphs, used, manifest, dev, combinedPathD,
          originalArea, metrics, glyphs2, used2, result, log, call, ret>>

\* ------------------------------------------------------------ numbers ----

\* model units per source unit (the source's 1 is Unit, its 0.5 is Unit \div 2)
Unit == 4

Abs(v) == IF v < 0 THEN -v ELSE v

Min2(a, b) == IF a < b THEN a ELSE b

Max2(a, b) == IF a > b THEN a ELSE b

\* n / d rounded to the nearest grid point (d > 0)
Round(n, d) == (2 * n + d) \div (2 * d)

\* v * (q[1] / q[2]) on the grid; q is a rational <<numerator, denominator>>
Times(v, q) == Round(v * q[1], q[2])

SetMin(S) == CHOOSE v \in S : \A w \in S : v <= w

SetMax(S) == CHOOSE v \in S : \A w \in S : v >= w

RECURSIVE SumSeq(_)
SumSeq(s) == IF s = << >> THEN 0 ELSE Head(s) + SumSeq(Tail(s))

RECURSIVE Flatten(_)
Flatten(ss) == IF ss = << >> THEN << >> ELSE Head(ss) \o Flatten(Tail(ss))

\* ------------------------------------------------------- path strings ----

Cmd(c) == <<c, 0>>

Num(v) == <<"#", v>>

\* the blank that join(" ") inserts between two joined strings
Sep == <<" ", 0>>

\* `M x y` / `L x y` as tokens
MoveTo(p) == <<Cmd("M"), Num(p[1]), Num(p[2])>>

LineTo(p) == <<Cmd("L"), Num(p[1]), Num(p[2])>>

QuadTo(c, p) == <<Cmd("Q"), Num(c[1]), Num(c[2]), Num(p[1]), Num(p[2])>>

\* pathD.match(/-?[\d.e]+|[MLCQAZ]/gi): blanks are not tokens
Tokens(pathD) == SelectSeq(pathD, LAMBDA t : t # Sep)

\* nextNum over the token list: the token read as a number, 0 when it is
\* missing or not a finite number
NextNum(tokens, i) ==
    IF i <= Len(tokens) /\ tokens[i][1] = "#" THEN tokens[i][2] ELSE 0

\* the quadratic sample loop of pathDToPolygons: points k = 1..n of the curve
QuadPoints(p0, c, p, n) ==
    [k \in 1..n |->
        << Round((n - k) * (n - k) * p0[1] + 2 * (n - k) * k * c[1] + k * k * p[1], n * n),
           Round((n - k) * (n - k) * p0[2] + 2 * (n - k) * k * c[2] + k * k * p[2], n * n) >>]

\* sampleCubic, points k = 1..n
CubicPoints(p0, c1, c2, p, n) ==
    [k \in 1..n |->
        << Round((n - k) * (n - k) * (n - k) * p0[1] + 3 * (n - k) * (n - k) * k * c1[1]
                 + 3 * (n - k) * k * k * c2[1] + k * k * k * p[1], n * n * n),
           Round((n - k) * (n - k) * (n - k) * p0[2] + 3 * (n - k) * (n - k) * k * c1[2]
                 + 3 * (n - k) * k * k * c2[2] + k * k * k * p[2], n * n * n) >>]

\* polygons.push([...current]) when the ring has at least 2 points
PushRing(polygons, current) ==
    IF Len(current) >= 2 THEN Append(polygons, current) ELSE polygons

\* history: for every ring emitted, whether a Z command emitted it; mark is
\* the flag of the ring that current would be emitted as
MarkRing(byZ, current, mark) ==
    IF Len(current) >= 2 THEN Append(byZ, mark) ELSE byZ

\* The command loop of pathDToPolygons.  st is the loop's state: i the next
\* token, current the open ring, start the point of the last M (startX,
\* startY), polygons the rings emitted, byZ the history of what emitted
\* them, thrown whether a curve command read current[current.length - 1] of
\* an empty ring (a TypeError).
RECURSIVE ParseLoop(_, _, _)
ParseLoop(tokens, samples, st) ==
    IF st.thrown \/ st.i > Len(tokens) THEN st
    ELSE LET cmd == tokens[st.i][1]
             i   == st.i + 1
         IN  IF cmd = "M" THEN
                 LET p == <<NextNum(tokens, i), NextNum(tokens, i + 1)>>
                 IN  ParseLoop(tokens, samples,
                        [st EXCEPT !.i = i + 2, !.polygons = PushRing(st.polygons, st.current),
                                   !.byZ = MarkRing(st.byZ, st.current, FALSE),
                                   !.current = <<p>>, !.start = p])
             ELSE IF cmd = "L" THEN
                 LET p == <<NextNum(tokens, i), NextNum(tokens, i + 1)>>
                 IN  ParseLoop(tokens, samples,
                        [st EXCEPT !.i = i + 2, !.current = Append(st.current, p)])
             ELSE IF cmd = "C" THEN
                 IF st.current = << >> THEN [st EXCEPT !.thrown = TRUE]
                 ELSE LET c1 == <<NextNum(tokens, i), NextNum(tokens, i + 1)>>
                          c2 == <<NextNum(tokens, i + 2), NextNum(tokens, i + 3)>>
                          p  == <<NextNum(tokens, i + 4), NextNum(tokens, i + 5)>>
                          n  == Max2(2, samples \div 10)
                      IN  ParseLoop(tokens, samples,
                             [st EXCEPT !.i = i + 6,
                                        !.current = st.current \o
                                            CubicPoints(st.current[Len(st.current)], c1, c2, p, n)])
             ELSE IF cmd = "Q" THEN
                 IF st.current = << >> THEN [st EXCEPT !.thrown = TRUE]
                 ELSE LET c == <<NextNum(tokens, i), NextNum(tokens, i + 1)>>
                          p == <<NextNum(tokens, i + 2), NextNum(tokens, i + 3)>>
                          n == Max2(2, samples \div 15)
                      IN  ParseLoop(tokens, samples,
                             [st EXCEPT !.i = i + 4,
                                        !.current = st.current \o
                                            QuadPoints(st.current[Len(st.current)], c, p, n)])
             ELSE IF cmd = "Z" THEN
                 ParseLoop(tokens, samples,
                    [st EXCEPT !.i = i,
                               !.polygons = IF Len(st.current) >= 2
                                            THEN Append(st.polygons, Append(st.current, st.start))
                                            ELSE st.polygons,
                               !.byZ = MarkRing(st.byZ, st.current, TRUE),
                               !.current = << >>])
             ELSE ParseLoop(tokens, samples, [st EXCEPT !.i = i])

\* after the loop: the trailing open ring is emitted too
ParseEnd(st) ==
    [thrown |-> st.thrown,
     polygons |-> IF st.thrown THEN << >> ELSE PushRing(st.polygons, st.current),
     byZ |-> IF st.thrown THEN << >> ELSE MarkRing(st.byZ, st.current, FALSE)]

\* pathDToPolygons(pathD, samples): [thrown, polygons]
pathDToPolygons(pathD, samples) ==
    ParseEnd(ParseLoop(Tokens(pathD), samples,
                 [i |-> 1, current |-> << >>, start |-> <<0, 0>>,
                  polygons |-> << >>, byZ |-> << >>, thrown |-> FALSE]))

\* the default sample budget of pathDToPolygons
DefaultSamples == 120

\* Numbers below 1e-6.  The coordinates of a polygon set are either all on
\* the grid (decimal exponent 0) or all whole multiples of 10^TinyExp, up to
\* nine of them (decimal exponent TinyExp, the number v stands for v * 1e-7).
TinyExp == 0 - 7

\* `${v}` as the tokenizer of pathDToPolygons reads it back.  A number on
\* the grid prints in decimal notation and is read back as one number.  A
\* number v * 1e-7 below 1e-6 prints as "ve-7"; /-?[\d.e]+/ splits that
\* into "ve" and "-7", and parseFloat reads the numbers v and -7.
NumberToString(v, e) ==
    IF e = 0 \/ v = 0 THEN <<Num(v)>> ELSE <<Num(v * Unit), Num(e * Unit)>>

\* `M ${x} ${y}` / `L ${x} ${y}` with numbers of decimal exponent e
PointPathD(cmd, pt, e) ==
    <<Cmd(cmd)>> \o NumberToString(pt[1], e) \o NumberToString(pt[2], e)

\* one ring of polygonsToPathD: M, an L per further point, Z
RingPathD(poly, e) ==
    IF Len(poly) < 2 THEN << >>
    ELSE PointPathD("M", poly[1], e)
         \o Flatten([k \in 1..(Len(poly) - 1) |-> PointPathD("L", poly[k + 1], e)])
         \o <<Cmd("Z")>>

\* polygonsToPathD of polygons whose numbers have the decimal exponent e
\* (blanks inside one produced path are never compared and are left out)
PolygonsPathD(polys, e) == Flatten([k \in 1..Len(polys) |-> RingPathD(polys[k], e)])

\* polygonsToPathD(polys) on the grid
polygonsToPathD(polys) == PolygonsPathD(polys, 0)

\* --------------------------------------------------- polygon clipping ----
\* ClipperLib is a dependency, not source of this repository.  Its Execute is
\* modelled on the cell raster of the grid: a cell is inside a polygon set
\* when its centre is inside under the even-odd rule, and the solution is the
\* result region cut into rectangles (maximal runs of cells per row, equal
\* runs of consecutive rows merged), one ring of four points per rectangle.

\* ClipperBase.hiRange / SCALE on the model's scale: AddPath raises an error
\* for a point with a coordinate beyond it
ClipRange == 24 * Unit

\* a clip input that takes every ring, whatever its length
KeepAllRings(polys) == polys

\* toIntPath(poly) for every ring (rounding to 1 / SCALE is the identity on
\* grid coordinates), kept when pg.length >= 3
ClipInput(polys) == SelectSeq(polys, LAMBDA poly : Len(poly) >= 3)

\* AddPath's range test over the rings handed to the clipper
OutOfRange(polys) ==
    \E k \in 1..Len(polys) : \E n \in 1..Len(polys[k]) :
        Abs(polys[k][n][1]) > ClipRange \/ Abs(polys[k][n][2]) > ClipRange

\* does the closing-edge-included edge n of ring poly cross the ray that
\* leaves the centre of cell <<i, j>> to the right?  (doubled coordinates)
EdgeCrosses(poly, n, i, j) ==
    LET a  == poly[n]
        b  == poly[(n % Len(poly)) + 1]
        cx == 2 * i + 1
        cy == 2 * j + 1
        d  == b[2] - a[2]
        lhs == (cx - 2 * a[1]) * d
        rhs == (cy - 2 * a[2]) * (b[1] - a[1])
    IN  /\ (2 * a[2] > cy) # (2 * b[2] > cy)
        /\ IF d > 0 THEN lhs < rhs ELSE lhs > rhs

\* even-odd fill: the centre of cell <<i, j>> is inside the polygon set
InsideEvenOdd(polys, i, j) ==
    Cardinality({e \in UNION {{<<k, n>> : n \in 1..Len(polys[k])} : k \in 1..Len(polys)} :
                    EdgeCrosses(polys[e[1]], e[2], i, j)}) % 2 = 1

\* all points of a polygon set
PointsOf(polys) == UNION {{polys[k][n] : n \in 1..Len(polys[k])} : k \in 1..Len(polys)}

\* the cells of the bounding box of a set of points
BoxCells(pts) ==
    IF pts = {} THEN {}
    ELSE (SetMin({p[1] : p \in pts})..(SetMax({p[1] : p \in pts}) - 1))
         \X (SetMin({p[2] : p \in pts})..(SetMax({p[2] : p \in pts}) - 1))

\* the region of a polygon set: the cells inside it
Region(polys) == {c \in BoxCells(PointsOf(polys)) : InsideEvenOdd(polys, c[1], c[2])}

\* the row j of a region has the maximal run of cells i1..i2
HasRun(cells, i1, i2, j) ==
    /\ \A i \in i1..i2 : <<i, j>> \in cells
    /\ <<i1 - 1, j>> \notin cells
    /\ <<i2 + 1, j>> \notin cells

\* the last column of the run of row j that starts at column i
RunEnd(cells, i, j) == CHOOSE k \in i..(i + Cardinality(cells)) :
    /\ <<k + 1, j>> \notin cells
    /\ \A m \in i..k : <<m + 1, j>> \in cells \/ m = k

\* the last row that has the run i1..i2 of row j, going down from j
RunBottom(cells, i1, i2, j) == CHOOSE k \in j..(j + Cardinality(cells)) :
    /\ ~HasRun(cells, i1, i2, k + 1)
    /\ \A m \in j..k : HasRun(cells, i1, i2, m + 1) \/ m = k

\* the rectangles <<i1, i2, j1, j2>> of a region: a run shared by the rows
\* j1..j2 and by neither neighbouring row
Rects(cells) ==
    {<<c[1], RunEnd(cells, c[1], c[2]), c[2],
       RunBottom(cells, c[1], RunEnd(cells, c[1], c[2]), c[2])>> :
        c \in {c \in cells : /\ <<c[1] - 1, c[2]>> \notin cells
                             /\ ~HasRun(cells, c[1], RunEnd(cells, c[1], c[2]), c[2] - 1)}}

\* rows first, then columns
RectBefore(q, r) == q[3] < r[3] \/ (q[3] = r[3] /\ q[1] < r[1])

RECURSIVE RectRings(_)
RectRings(qs) ==
    IF qs = {} THEN << >>
    ELSE LET q == CHOOSE q \in qs : \A r \in qs \ {q} : RectBefore(q, r)
         IN  << << <<q[1], q[3]>>, <<q[2] + 1, q[3]>>,
                   <<q[2] + 1, q[4] + 1>>, <<q[1], q[4] + 1>> >> >>
             \o RectRings(qs \ {q})

\* a clipper that unites whatever the clip type
CombineAsUnion(clipType, inSubj, clip) == inSubj \cup Region(clip)

\* the result region of a clip type
Combine(clipType, inSubj, clip) ==
    IF clipType = "ctUnion" THEN inSubj \cup Region(clip)
    ELSE {c \in inSubj : ~InsideEvenOdd(clip, c[1], c[2])}

\* Clipper.Execute(clipType, solution, pftEvenOdd, pftEvenOdd): the solution
\* rings, after AddPath of the subject and the clip rings
Execute(clipType, subj, clip) == RectRings(Rects(Combine(clipType, Region(subj), clip)))

\* AddPath of the rings, then Execute and polygonsToPathD of the solution
ClipRings(clipType, subj, clip) ==
    IF OutOfRange(subj) \/ OutOfRange(clip) THEN [thrown |-> TRUE, path_d |-> << >>]
    ELSE [thrown |-> FALSE, path_d |-> polygonsToPathD(Execute(clipType, subj, clip))]

\* the body of union and subtract on the converted operands
ClipPolys(clipType, subjPolys, clipPolys) ==
    IF subjPolys.thrown \/ clipPolys.thrown THEN [thrown |-> TRUE, path_d |-> << >>]
    ELSE ClipRings(clipType, ClipInput(subjPolys.polygons), ClipInput(clipPolys.polygons))

\* union / subtract of the kernel: [thrown, path_d].  thrown: the path
\* conversion or the clipper raised.
ClipPaths(clipType, pathD, shapePathD) ==
    ClipPolys(clipType, pathDToPolygons(pathD, DefaultSamples),
              pathDToPolygons(shapePathD, DefaultSamples))

union(pathD, shapePathD) == ClipPaths("ctUnion", pathD, shapePathD)

subtract(pathD, shapePathD) == ClipPaths("ctDifference", pathD, shapePathD)

\* ------------------------------------------------------------- shapes ----

rectPath(x, y, w, h) ==
    MoveTo(<<x, y>>) \o LineTo(<<x + w, y>>) \o LineTo(<<x + w, y + h>>)
    \o LineTo(<<x, y + h>>) \o <<Cmd("Z")>>

\* a wedge whose apex lies on its base: three points in a line
FlatWedge(x, y, w, h, side) ==
    MoveTo(<<x, y>>) \o LineTo(<<x + w, y>>) \o LineTo(<<x + w \div 2, y>>) \o <<Cmd("Z")>>

wedgePath(x, y, w, h, side) ==
    LET cx == x + w \div 2
        cy == y + h \div 2
    IN  IF side = "top" THEN
            MoveTo(<<x, y + h>>) \o LineTo(<<x + w, y + h>>) \o LineTo(<<cx, y>>) \o <<Cmd("Z")>>
        ELSE IF side = "bottom" THEN
            MoveTo(<<x, y>>) \o LineTo(<<cx, y + h>>) \o LineTo(<<x + w, y>>) \o <<Cmd("Z")>>
        ELSE IF side = "inner" THEN
            MoveTo(<<x + w, y>>) \o LineTo(<<x + w, y + h>>) \o LineTo(<<x, cy>>) \o <<Cmd("Z")>>
        ELSE
            MoveTo(<<x, y>>) \o LineTo(<<x, y + h>>) \o LineTo(<<x + w, cy>>) \o <<Cmd("Z")>>

\* Math.cos / Math.sin of a quarter-turn angle (the angles of the model)
Cos(deg) == CASE deg % 360 = 0 -> 1 [] deg % 360 = 180 -> -1 [] OTHER -> 0

Sin(deg) == CASE deg % 360 = 90 -> 1 [] deg % 360 = 270 -> -1 [] OTHER -> 0

diagonalBandPath(bbox, angle_deg, thickness, offset) ==
    LET dx == Cos(angle_deg) * (bbox.w + bbox.h)
        dy == Sin(angle_deg) * (bbox.w + bbox.h)
        px == bbox.x + offset
        py == bbox.y + offset
        perpX == (0 - Sin(angle_deg)) * thickness
        perpY == Cos(angle_deg) * thickness
    IN  MoveTo(<<px, py>>) \o LineTo(<<px + dx, py + dy>>)
        \o LineTo(<<px + dx + perpX, py + dy + perpY>>)
        \o LineTo(<<px + perpX, py + perpY>>) \o <<Cmd("Z")>>

\* r >= w / 2 and r >= h / 2 are compared cross-multiplied
roundedRectPath(x, y, w, h, r) ==
    IF r <= 0 \/ 2 * r >= w \/ 2 * r >= h THEN rectPath(x, y, w, h)
    ELSE MoveTo(<<x + r, y>>) \o LineTo(<<x + w - r, y>>)
         \o QuadTo(<<x + w, y>>, <<x + w, y + r>>)
         \o LineTo(<<x + w, y + h - r>>)
         \o QuadTo(<<x + w, y + h>>, <<x + w - r, y + h>>)
         \o LineTo(<<x + r, y + h>>)
         \o QuadTo(<<x, y + h>>, <<x, y + h - r>>)
         \o LineTo(<<x, y + r>>)
         \o QuadTo(<<x, y>>, <<x + r, y>>) \o <<Cmd("Z")>>

\* ------------------------------------------------------------ devices ----
\* A glyph run is [char, path_d, bbox, advance], bbox = [x, y, w, h].  A
\* device magnitude (depth, width, thickness) is a rational <<n, d>>.

\* q * (a / b), for the intensified magnitudes
Scaled(q, a, b) == <<q[1] * a, q[2] * b>>

\* the wedge of applyNotchCut: the zone of the bounding box at the side asked
\* for, and the wedge in it
NotchWedge(bbox, side, depth, width) ==
    LET h == Max2(Times(bbox.h, depth), Unit \div 2)
        w == Max2(Times(bbox.w, width), Unit \div 2)
        x == IF side \in {"top", "bottom"} THEN bbox.x + Round(bbox.w - w, 2)
             ELSE IF side = "inner" THEN bbox.x + bbox.w - w
             ELSE bbox.x
        y == IF side = "top" THEN bbox.y
             ELSE IF side = "bottom" THEN bbox.y + bbox.h - h
             ELSE bbox.y + Round(bbox.h - h, 2)
    IN  wedgePath(x, y, w, h, side)

applyNotchCut(glyph, side, depth, width) ==
    subtract(glyph.path_d, NotchWedge(glyph.bbox, side, depth, width))

applySeamCut(glyph, angle_deg, thickness, offset) ==
    subtract(glyph.path_d,
             diagonalBandPath(glyph.bbox, angle_deg, Times(glyph.bbox.h, thickness), offset))

\* a bridge rectangle that starts one grid step past the first glyph
BridgeRectInset(b1, b2, thickness, y_pos) ==
    [x |-> b1.x + b1.w + 1, y |-> Min2(b1.y, b2.y),
     w |-> Max2(b2.x - (b1.x + b1.w) - 1, 1),
     h |-> Max2(Round((b1.h + b2.h) * thickness[1], 2 * thickness[2]), Unit)]

\* the rounded rectangle that applyLigatureBridge puts between two glyphs
BridgeRect(b1, b2, thickness, y_pos) ==
    LET gap  == b2.x - (b1.x + b1.w)
        th   == Max2(Round((b1.h + b2.h) * thickness[1], 2 * thickness[2]), Unit)
        midH == Round(2 * b1.y + b1.h + 2 * b2.y + b2.h, 4)
        y    == IF y_pos = "baseline" THEN midH - Round(th, 2)
                ELSE IF y_pos = "cap" THEN Min2(b1.y, b2.y)
                ELSE Min2(b1.y + Times(b1.h, <<7, 10>>), b2.y + Times(b2.h, <<7, 10>>))
                     - Round(th, 2)
    IN  [x |-> b1.x + b1.w, y |-> y, w |-> Max2(gap, Unit \div 2), h |-> th]

\* union(combined, glyphB.path_d), unless the first union raised
ThenUnion(combined, pathD) ==
    IF combined.thrown THEN combined ELSE union(combined.path_d, pathD)

\* the bridge path of a bridge rectangle q
BridgePath(q) == roundedRectPath(q.x, q.y, q.w, q.h, Round(q.h, 4))

applyLigatureBridge(glyphA, glyphB, thickness, y_pos) ==
    ThenUnion(union(glyphA.path_d,
                    BridgePath(BridgeRect(glyphA.bbox, glyphB.bbox, thickness, y_pos))),
              glyphB.path_d)

\* ------------------------------------------------------------ metrics ----
\* Areas are counted in half cells (twice the shoelace area), so that the
\* shoelace sum needs no division; every metric is a ratio of two areas.
\* A metric value is a rational <<n, d>> with d > 0.

RLess(a, b) == a[1] * b[2] < b[1] * a[2]

REq(a, b) == a[1] * b[2] = b[1] * a[2]

RMin(a, b) == IF RLess(b, a) THEN b ELSE a

RMax(a, b) == IF RLess(a, b) THEN b ELSE a

\* a metric left as computed
Unclamped(a) == a

\* Math.min(100, Math.max(0, a))
Clamp100(a) == RMin(<<100, 1>>, RMax(<<0, 1>>, a))

\* polygonArea, doubled
polygonArea(poly) ==
    Abs(SumSeq([n \in 1..Len(poly) |->
            poly[n][1] * poly[(n % Len(poly)) + 1][2]
            - poly[(n % Len(poly)) + 1][1] * poly[n][2]]))

\* the sample budget of the area computations
AreaSamples == 60

\* the sum of the ring areas
RingsArea(polys) == SumSeq([k \in 1..Len(polys) |-> polygonArea(polys[k])])

\* pathArea, doubled (the paths measured here convert without raising)
pathArea(pathD) == RingsArea(pathDToPolygons(pathD, AreaSamples).polygons)

\* computeMetrics on the two areas
MetricsOf(areaOrig, areaMod) ==
    LET areaDelta == areaOrig - areaMod
        areaDeltaRatio == IF areaOrig > 0 THEN <<Abs(areaDelta), areaOrig>> ELSE <<0, 1>>
        loss == IF areaOrig > 0 THEN <<areaDelta, areaOrig>> ELSE <<0, 1>>
    IN  [device_visibility |-> Clamp100(<<areaDeltaRatio[1] * 100, areaDeltaRatio[2]>>),
         silhouette_delta  |-> IF ~RLess(areaDeltaRatio, <<2, 100>>) THEN <<100, 1>> ELSE <<0, 1>>,
         default_font_risk |->
             Clamp100(<<(areaDeltaRatio[2] - areaDeltaRatio[1]) * 100, areaDeltaRatio[2]>>),
         legibility |->
             Clamp100(IF areaDelta > 0 /\ areaOrig > 0 /\ RLess(<<35, 100>>, loss)
                      THEN RMax(<<0, 1>>, <<100 * loss[2] - 150 * loss[1], loss[2]>>)
                      ELSE <<100, 1>>)]

\* computeMetrics(originalPathD, modifiedPathD, originalArea); the third
\* argument is << >> when the caller leaves it out, <<area>> otherwise
computeMetrics(originalPathD, modifiedPathD, optArea) ==
    MetricsOf(IF optArea = << >> THEN pathArea(originalPathD) ELSE optArea[1],
              pathArea(modifiedPathD))

\* --------------------------------------------------------- customizer ----

\* String.prototype.toLowerCase on the letters of the model
toLowerCase(c) == CASE c = "A" -> "a" [] c = "B" -> "b" [] OTHER -> c

IsSingle(d) == d.kind \in {"notch_cut", "seam_cut"}

normalizePlan(p) ==
    [p EXCEPT
        !.target_letters = [n \in 1..Len(p.target_letters) |-> toLowerCase(p.target_letters[n])],
        !.devices = [n \in 1..Len(p.devices) |->
            LET d == p.devices[n]
            IN  IF d.target = "single" THEN [d EXCEPT !.letter = toLowerCase(d.letter)]
                ELSE [d EXCEPT !.from = toLowerCase(d.from), !.to = toLowerCase(d.to)]]]

\* polys.map((poly) => poly.map(([x, y]) => [(x - cx) * scaleX + cx, y]))
ScaleRings(polys, scaleX, c) ==
    [n \in 1..Len(polys) |->
        [m \in 1..Len(polys[n]) |-> <<Times(polys[n][m][1] - c, scaleX) + c, polys[n][m][2]>>]]

\* the sample budget of scalePathX
ScaleSamples == 80

\* scalePathX(pathD, scaleX, cx); scaleX is a rational
scalePathX(pathD, scaleX, c) ==
    polygonsToPathD(ScaleRings(pathDToPolygons(pathD, ScaleSamples).polygons, scaleX, c))

\* a lookup that does not consult the used set
FirstMatch(gs, letter, usedSet) ==
    LET hits == {i \in 1..Len(gs) : toLowerCase(gs[i].char) = toLowerCase(letter)}
    IN  IF hits = {} THEN 0 ELSE SetMin(hits)

\* a lookup that scans the glyphs from the end
LastUnused(gs, letter, usedSet) ==
    LET hits == {i \in 1..Len(gs) :
                    toLowerCase(gs[i].char) = toLowerCase(letter) /\ i \notin usedSet}
    IN  IF hits = {} THEN 0 ELSE SetMax(hits)

\* findGlyphIndex: the first index (from 1) whose char matches the letter
\* and that is not used; 0 for the source's -1
findGlyphIndex(gs, letter, usedSet) ==
    LET hits == {i \in 1..Len(gs) :
                    toLowerCase(gs[i].char) = toLowerCase(letter) /\ i \notin usedSet}
    IN  IF hits = {} THEN 0 ELSE SetMin(hits)

\* base.glyphs.map((g) => ({...g})), then scalePathX on every glyph when
\* boldness.compression is not 1
WorkingGlyphs(b, p, c) ==
    [n \in 1..Len(b.glyphs) |->
        IF p.boldness.compression[1] # p.boldness.compression[2]
        THEN [b.glyphs[n] EXCEPT
                !.path_d = scalePathX(b.glyphs[n].path_d, p.boldness.compression, c)]
        ELSE b.glyphs[n]]

\* the manifest target of a device
TargetOf(d) == IF IsSingle(d) THEN <<d.letter>> ELSE <<d.from, "-", d.to>>

\* the try block of a single-glyph device on glyph idx (0: none found)
SingleOp(gs, idx, d) ==
    IF idx = 0 THEN [thrown |-> FALSE, path_d |-> << >>]
    ELSE IF d.kind = "notch_cut" THEN applyNotchCut(gs[idx], d.side, d.depth, d.width)
    ELSE applySeamCut(gs[idx], d.angle_deg, d.thickness, d.offset)

\* a single-glyph device whose catch branch loses the failure
SingleStepSilent(gs, usedSet, idx, out) ==
    IF idx > 0
    THEN [glyphs |-> [gs EXCEPT ![idx].path_d = out.path_d], used |-> usedSet \cup {idx},
          ia |-> idx, ib |-> 0, threw |-> out.thrown, applied |-> TRUE]
    ELSE [glyphs |-> gs, used |-> usedSet, ia |-> idx, ib |-> 0, threw |-> FALSE,
          applied |-> FALSE]

\* a single-glyph device that passes over a glyph the geometry would empty
SingleStepKeep(gs, usedSet, idx, out) ==
    IF idx > 0 /\ ~out.thrown /\ out.path_d # << >>
    THEN [glyphs |-> [gs EXCEPT ![idx].path_d = out.path_d], used |-> usedSet \cup {idx},
          ia |-> idx, ib |-> 0, threw |-> FALSE, applied |-> TRUE]
    ELSE [glyphs |-> gs, used |-> usedSet,
          ia |-> idx, ib |-> 0, threw |-> idx > 0 /\ out.thrown, applied |-> FALSE]

\* a single-glyph device after its try block: out is what the geometry gave
SingleStep(gs, usedSet, idx, out) ==
    IF idx > 0 /\ ~out.thrown
    THEN [glyphs |-> [gs EXCEPT ![idx].path_d = out.path_d], used |-> usedSet \cup {idx},
          ia |-> idx, ib |-> 0, threw |-> FALSE, applied |-> TRUE]
    ELSE [glyphs |-> gs, used |-> usedSet,
          ia |-> idx, ib |-> 0, threw |-> idx > 0, applied |-> FALSE]

\* a pair test that lets a glyph be bridged to itself
PairFoundAny(ia, ib) == ia > 0 /\ ib > 0

\* ia >= 0 && ib >= 0 && ia !== ib
PairFound(ia, ib) == ia > 0 /\ ib > 0 /\ ia # ib

\* the try block of a ligature bridge on the glyphs ia and ib
PairOp(gs, ia, ib, d) ==
    IF PairFound(ia, ib) THEN applyLigatureBridge(gs[ia], gs[ib], d.thickness, d.y_pos)
    ELSE [thrown |-> FALSE, path_d |-> << >>]

\* a ligature bridge that leaves the second glyph's path in place
PairStepKeepB(gs, usedSet, ia, ib, out) ==
    IF PairFound(ia, ib) /\ ~out.thrown
    THEN [glyphs |-> [gs EXCEPT ![ia].path_d = out.path_d], used |-> usedSet \cup {ia, ib},
          ia |-> ia, ib |-> ib, threw |-> FALSE, applied |-> TRUE]
    ELSE [glyphs |-> gs, used |-> usedSet,
          ia |-> ia, ib |-> ib, threw |-> PairFound(ia, ib), applied |-> FALSE]

\* a ligature bridge after its try block
PairStep(gs, usedSet, ia, ib, out) ==
    IF PairFound(ia, ib) /\ ~out.thrown
    THEN [glyphs |-> [gs EXCEPT ![ia].path_d = out.path_d, ![ib].path_d = << >>],
          used |-> usedSet \cup {ia, ib},
          ia |-> ia, ib |-> ib, threw |-> FALSE, applied |-> TRUE]
    ELSE [glyphs |-> gs, used |-> usedSet,
          ia |-> ia, ib |-> ib, threw |-> PairFound(ia, ib), applied |-> FALSE]

\* One iteration of the device loop on the glyphs gs and the used set:
\* the glyphs and used set after it, the indices it looked up (ia, ib; 0
\* when none), whether the geometry raised, whether the device was applied.
DeviceStep(gs, usedSet, d) ==
    IF IsSingle(d)
    THEN SingleStep(gs, usedSet, findGlyphIndex(gs, d.letter, usedSet),
                    SingleOp(gs, findGlyphIndex(gs, d.letter, usedSet), d))
    ELSE PairStep(gs, usedSet, findGlyphIndex(gs, d.from, usedSet),
                  findGlyphIndex(gs, d.to, usedSet),
                  PairOp(gs, findGlyphIndex(gs, d.from, usedSet),
                         findGlyphIndex(gs, d.to, usedSet), d))

\* strings.filter(Boolean).join(" ")
RECURSIVE JoinBlank(_)
JoinBlank(ps) ==
    IF ps = << >> THEN << >>
    ELSE IF Len(ps) = 1 THEN ps[1]
    ELSE ps[1] \o <<Sep>> \o JoinBlank(Tail(ps))

CombinedPath(gs) ==
    JoinBlank(SelectSeq([n \in 1..Len(gs) |-> gs[n].path_d], LAMBDA q : q # << >>))

\* the magnitudes of the retry
Intensify(d) ==
    IF d.kind = "notch_cut"
    THEN [d EXCEPT !.depth = Scaled(d.depth, 6, 5), !.width = Scaled(d.width, 6, 5)]
    ELSE IF d.kind = "seam_cut" THEN [d EXCEPT !.thickness = Scaled(d.thickness, 6, 5)]
    ELSE [d EXCEPT !.thickness = Scaled(d.thickness, 23, 20)]

\* metrics.device_visibility < 6 || metrics.default_font_risk > 95
NeedsRetry(m) == RLess(m.device_visibility, <<6, 1>>) \/ RLess(<<95, 1>>, m.default_font_risk)

\* ------------------------------------------------------------- inputs ----

\* the most devices of a plan
MaxDevices == 2

\* the glyph outline provider (fontToPath with return_glyphs) for a font
\* whose glyphs are boxes: lower-case letters x-height tall, capitals
\* cap-height tall, all standing on the baseline y = font_size
GlyphWidth == Unit

XHeight == Unit + Unit \div 2

CapHeight == 2 * Unit

Tracking == Unit \div 2

GlyphRun(text, n) ==
    LET x == (n - 1) * (GlyphWidth + Tracking)
        h == IF text[n] \in {"A", "B"} THEN CapHeight ELSE XHeight
        y == CapHeight - h
    IN  [char |-> text[n], path_d |-> rectPath(x, y, GlyphWidth, h),
         bbox |-> [x |-> x, y |-> y, w |-> GlyphWidth, h |-> h],
         advance |-> GlyphWidth + Tracking]

\* the WordmarkBase the provider returns for a text: the combined path is
\* the glyph paths one after the other (Path.extend, then toPathData)
fontToPath(text) ==
    LET gs == [n \in 1..Len(text) |-> GlyphRun(text, n)]
        right == gs[Len(text)].bbox.x + GlyphWidth
        top == SetMin({gs[n].bbox.y : n \in 1..Len(text)})
    IN  [path_d |-> Flatten([n \in 1..Len(text) |-> gs[n].path_d]),
         viewBox |-> <<0, top, right, CapHeight - top>>,
         width |-> right, height |-> CapHeight - top, glyphs |-> gs]

Texts == {<<"a", "b">>, <<"a", "A", "b">>, <<"b", "a", "a">>, <<"A">>}

Notch(letter, side, depth, width) ==
    [kind |-> "notch_cut", target |-> "single", letter |-> letter, side |-> side,
     depth |-> depth, width |-> width]

Seam(letter, angle_deg, thickness, offset) ==
    [kind |-> "seam_cut", target |-> "single", letter |-> letter, angle_deg |-> angle_deg,
     thickness |-> thickness, offset |-> offset]

Bridge(from, to, thickness, y_pos) ==
    [kind |-> "ligature_bridge", target |-> "pair", from |-> from, to |-> to,
     thickness |-> thickness, y_pos |-> y_pos]

\* the devices a plan is made of
DeviceChoices ==
    { Notch("a", "top", <<1, 2>>, <<1, 2>>),
      Notch("A", "inner", <<1, 8>>, <<1, 8>>),
      Notch("b", "bottom", <<40, 1>>, <<1, 2>>),
      Notch("b", "bottom", <<17, 1>>, <<1, 2>>),
      Seam("a", 0, <<1, 1>>, 0),
      Seam("B", 90, <<1, 3>>, Unit \div 2),
      Bridge("a", "b", <<1, 4>>, "cap"),
      Bridge("a", "A", <<1, 4>>, "baseline"),
      Bridge("A", "b", <<1, 2>>, "xheight") }

DeviceLists == UNION {[1..n -> DeviceChoices] : n \in 0..MaxDevices}

Compressions == {<<1, 1>>, <<3, 4>>}

LettersOf(ds) ==
    Flatten([n \in 1..Len(ds) |->
        IF IsSingle(ds[n]) THEN <<ds[n].letter>> ELSE <<ds[n].from, ds[n].to>>])

Plans ==
    {[target_letters |-> LettersOf(ds), devices |-> ds,
      boldness |-> [compression |-> c, weight_bias |-> 0],
      optical |-> [overshoot |-> 0], reject_if |-> << >>] :
        ds \in DeviceLists, c \in Compressions}

NoMetrics == MetricsOf(0, 0)

\* -------------------------------------------------- customizeWordmark ----

Init ==
    /\ base \in {fontToPath(t) : t \in Texts}
    /\ plan \in Plans
    /\ pc = "start"
    /\ planNorm = plan
    /\ glyphs = << >>
    /\ used = {}
    /\ manifest = << >>
    /\ dev = 1
    /\ combinedPathD = << >>
    /\ originalArea = 0
    /\ metrics = NoMetrics
    /\ glyphs2 = << >>
    /\ used2 = {}
    /\ result = << >>
    /\ log = [first |-> << >>, retry |-> << >>, measured |-> << >>, retried |-> FALSE]
    /\ call = << >>
    /\ ret = << >>

\* glyph runs that the loops write in place, in the caller's array
BaseSharingGlyphs(b, gs) == [b EXCEPT !.glyphs = gs]

\* The caller's base after the call has written the paths of its working
\* glyph runs gs: the runs written are the copies { ...g } of lines 71 and
\* 153 (their bbox objects are shared with the caller's and never written)
BaseAfterWrites(b, gs) == b

\* cx of the view box
CenterX(b) == b.viewBox[1] + Round(b.viewBox[3], 2)

\* where the call stands: the guards of the steps below
AtStart == pc = "start"

InDeviceLoop == pc = "devices" /\ dev <= Len(planNorm.devices)

AfterDeviceLoop == pc = "devices" /\ dev > Len(planNorm.devices)

InRetryLoop == pc = "retry" /\ dev <= Len(planNorm.devices)

AfterRetryLoop == pc = "retry" /\ dev > Len(planNorm.devices)

\* lines 69-83: normalise the plan, copy and compress the glyphs
Begin ==
    /\ AtStart
    /\ planNorm' = normalizePlan(plan)
    /\ glyphs' = WorkingGlyphs(base, normalizePlan(plan), CenterX(base))
    /\ used' = {}
    /\ manifest' = << >>
    /\ dev' = 1
    /\ pc' = "devices"
    /\ base' = BaseAfterWrites(base, glyphs')
    /\ UNCHANGED <<plan, combinedPathD, originalArea, metrics, glyphs2, used2,
                   result, log, call, ret>>

\* what the history keeps of one device iteration
LogEntry(d, step, before) ==
    [device |-> d, ia |-> step.ia, ib |-> step.ib, threw |-> step.threw,
     applied |-> step.applied, before |-> before, after |-> step.glyphs]

\* the manifest entry of a device
ManifestItem(d, applied) == [device |-> d.kind, target |-> TargetOf(d), applied |-> applied]

\* the first pass's state after one iteration, step = DeviceStep(...)
FirstPassStep(d, step) ==
    /\ glyphs' = step.glyphs
    /\ used' = step.used
    /\ manifest' = Append(manifest, ManifestItem(d, step.applied))
    /\ log' = [log EXCEPT !.first = Append(@, LogEntry(d, step, glyphs))]

\* lines 85-131: one iteration of the first pass's device loop
ApplyDevice ==
    /\ InDeviceLoop
    /\ FirstPassStep(planNorm.devices[dev], DeviceStep(glyphs, used, planNorm.devices[dev]))
    /\ dev' = dev + 1
    /\ base' = BaseAfterWrites(base, glyphs')
    /\ UNCHANGED <<plan, pc, planNorm, combinedPathD, originalArea, metrics, glyphs2,
                   used2, result, call, ret>>

\* a value returned whose manifest tells the last pass that ran
OutputOfLastPass(pathD, m) ==
    [wordmark_path_d |-> pathD,
     manifest |-> IF log.retry # << >>
                  THEN [n \in 1..Len(log.retry) |->
                           ManifestItem(planNorm.devices[n], log.retry[n].applied)]
                  ELSE manifest,
     metrics |-> m]

\* the value returned
Output(pathD, m) == [wordmark_path_d |-> pathD, manifest |-> manifest, metrics |-> m]

\* a final path that is the recombined path even when it is empty
KeepEmpty(pathD) == pathD

\* combinedPathD || base.path_d
OrBase(pathD) == IF pathD # << >> THEN pathD ELSE base.path_d

\* a retry that goes on from the glyphs and the used set of the first pass
RetryOrReturnCarrying(m) ==
    /\ metrics' = m
    /\ log' = [log EXCEPT !.measured = <<m>>, !.retried = NeedsRetry(m)]
    /\ IF NeedsRetry(m)
       THEN /\ pc' = "retry"
            /\ dev' = 1
            /\ glyphs2' = glyphs
            /\ used2' = used
            /\ result' = result
            /\ base' = BaseAfterWrites(base, glyphs2')
       ELSE /\ pc' = "done"
            /\ result' = Output(OrBase(CombinedPath(glyphs)), m)
            /\ UNCHANGED <<base, dev, glyphs2, used2>>

\* lines 146-158 and 206-214 on the first pass's metrics m
RetryOrReturn(m) ==
    /\ metrics' = m
    /\ log' = [log EXCEPT !.measured = <<m>>, !.retried = NeedsRetry(m)]
    /\ IF NeedsRetry(m)
       THEN /\ pc' = "retry"
            /\ dev' = 1
            /\ glyphs2' = WorkingGlyphs(base, planNorm, CenterX(base))
            /\ used2' = {}
            /\ result' = result
            /\ base' = BaseAfterWrites(base, glyphs2')
       ELSE /\ pc' = "done"
            /\ result' = Output(OrBase(CombinedPath(glyphs)), m)
            /\ UNCHANGED <<base, dev, glyphs2, used2>>

\* lines 133-158 and 206-214: recombine, measure, and either start the
\* retry or return the first pass
Measure ==
    /\ AfterDeviceLoop
    /\ combinedPathD' = CombinedPath(glyphs)
    /\ originalArea' = pathArea(base.path_d)
    /\ RetryOrReturn(computeMetrics(base.path_d, OrBase(CombinedPath(glyphs)),
                                    <<pathArea(base.path_d)>>))
    /\ UNCHANGED <<plan, planNorm, glyphs, used, manifest, call, ret>>

\* the retry's state after one iteration, step = DeviceStep(...)
RetryStep(d, step) ==
    /\ glyphs2' = step.glyphs
    /\ used2' = step.used
    /\ log' = [log EXCEPT !.retry = Append(@, LogEntry(d, step, glyphs2))]

\* lines 160-190: one iteration of the retry's device loop
ApplyIntensified ==
    /\ InRetryLoop
    /\ RetryStep(Intensify(planNorm.devices[dev]),
                 DeviceStep(glyphs2, used2, Intensify(planNorm.devices[dev])))
    /\ dev' = dev + 1
    /\ base' = BaseAfterWrites(base, glyphs2')
    /\ UNCHANGED <<plan, pc, planNorm, glyphs, used, manifest, combinedPathD,
                   originalArea, metrics, result, call, ret>>

\* lines 192-203: the retry's metrics m replace the first pass's
ReturnRetry(combined2, m) ==
    /\ metrics' = m
    /\ result' = Output(combined2, m)

\* an end of the retry that starts the retry over while its metrics ask for one
FinishRetryAgain ==
    /\ AfterRetryLoop
    /\ IF NeedsRetry(computeMetrics(base.path_d, OrBase(CombinedPath(glyphs2)),
                                    <<originalArea>>))
       THEN /\ dev' = 1
            /\ glyphs2' = WorkingGlyphs(base, planNorm, CenterX(base))
            /\ used2' = {}
            /\ UNCHANGED <<pc, metrics, result>>
       ELSE /\ ReturnRetry(OrBase(CombinedPath(glyphs2)),
                           computeMetrics(base.path_d, OrBase(CombinedPath(glyphs2)),
                                          <<originalArea>>))
            /\ pc' = "done"
            /\ UNCHANGED <<dev, glyphs2, used2>>
    /\ UNCHANGED <<base, plan, planNorm, glyphs, used, manifest, combinedPathD,
                   originalArea, log, call, ret>>

\* an end of the retry that returns the retry's path whatever it is
FinishRetryAlways ==
    /\ AfterRetryLoop
    /\ ReturnRetry(CombinedPath(glyphs2),
                   computeMetrics(base.path_d, CombinedPath(glyphs2), <<originalArea>>))
    /\ pc' = "done"
    /\ UNCHANGED <<base, plan, planNorm, glyphs, used, manifest, dev, combinedPathD,
                   originalArea, glyphs2, used2, log, call, ret>>

\* lines 191-214: return the retry's path when it is not empty, the first
\* pass's otherwise
FinishRetry ==
    /\ AfterRetryLoop
    /\ IF CombinedPath(glyphs2) # << >>
       THEN ReturnRetry(CombinedPath(glyphs2),
                        computeMetrics(base.path_d, CombinedPath(glyphs2), <<originalArea>>))
       ELSE /\ metrics' = metrics
            /\ result' = Output(OrBase(combinedPathD), metrics)
    /\ pc' = "done"
    /\ UNCHANGED <<base, plan, planNorm, glyphs, used, manifest, dev, combinedPathD,
                   originalArea, glyphs2, used2, log, call, ret>>

Next == Begin \/ ApplyDevice \/ Measure \/ ApplyIntensified \/ FinishRetry

Spec == Init /\ [][Next]_vars

\* ------------------------------------------- functions called alone ----

\* the customizer's variables while a function is called on its own
Parked ==
    /\ base = << >> /\ plan = << >> /\ pc = "parked" /\ planNorm = << >>
    /\ glyphs = << >> /\ used = {} /\ manifest = << >> /\ dev = 0
    /\ combinedPathD = << >> /\ originalArea = 0 /\ metrics = NoMetrics
    /\ glyphs2 = << >> /\ used2 = {} /\ result = << >>
    /\ log = [first |-> << >>, retry |-> << >>, measured |-> << >>, retried |-> FALSE]

customizerVars == <<base, plan, pc, planNorm, glyphs, used, manifest, dev, combinedPathD,
                    originalArea, metrics, glyphs2, used2, result, log>>

\* the longest side of the rectangles measured
MaxSide == 10

\* the sides of the modified outlines: up to MaxSide, and 13 (35% of an
\* area of 200 is lost by a 5 x 13 rectangle)
Sides == (0..MaxSide) \cup {13}

\* the calls of computeMetrics: the original outline, the modified outline
\* and the optional original area (in half cells)
MetricsCalls ==
    {[fn |-> "computeMetrics", originalPathD |-> rectPath(0, 0, w1, 10),
      modifiedPathD |-> rectPath(0, 0, w2, h2), originalArea |-> a, w1 |-> w1, w2 |-> w2,
      h2 |-> h2] :
        w1 \in {0, 5, 10}, w2 \in Sides, h2 \in Sides,
        a \in {<< >>, <<0 - 4>>, <<0>>, <<100>>, <<200>>}}

InitMetrics == Parked /\ call \in MetricsCalls /\ ret = << >>

CallComputeMetrics ==
    /\ call.fn = "computeMetrics"
    /\ ret = << >>
    /\ ret' = <<computeMetrics(call.originalPathD, call.modifiedPathD, call.originalArea)>>
    /\ UNCHANGED <<call, customizerVars>>

NextMetrics == CallComputeMetrics

SpecMetrics == InitMetrics /\ [][NextMetrics]_vars

\* the widest gap between the two glyphs bridged
MaxGap == 4

\* the vertical extents <<y, h>> of the glyphs bridged: a capital, a
\* lower-case letter, a period
Extents == {<<0, CapHeight>>, <<CapHeight - XHeight, XHeight>>,
            <<CapHeight - Unit \div 2, Unit \div 2>>}

BoxGlyph(char, x, e) ==
    [char |-> char, path_d |-> rectPath(x, e[1], GlyphWidth, e[2]),
     bbox |-> [x |-> x, y |-> e[1], w |-> GlyphWidth, h |-> e[2]],
     advance |-> GlyphWidth]

\* the calls of applyLigatureBridge: two glyphs a positive gap apart
BridgeCalls ==
    {[fn |-> "applyLigatureBridge", glyphA |-> BoxGlyph("a", 0, ea),
      glyphB |-> BoxGlyph("b", GlyphWidth + gap, eb), thickness |-> th, y_pos |-> yp] :
        ea \in Extents, eb \in Extents, gap \in 1..MaxGap,
        th \in {<<1, 10>>, <<1, 4>>, <<1, 2>>}, yp \in {"baseline", "xheight", "cap"}}

InitBridge == Parked /\ call \in BridgeCalls /\ ret = << >>

CallApplyLigatureBridge ==
    /\ call.fn = "applyLigatureBridge"
    /\ ret = << >>
    /\ ret' = <<applyLigatureBridge(call.glyphA, call.glyphB, call.thickness, call.y_pos)>>
    /\ UNCHANGED <<call, customizerVars>>

NextBridge == CallApplyLigatureBridge

SpecBridge == InitBridge /\ [][NextBridge]_vars

\* the glyphs notched on their own: outlines whose bounding box is
\* {x: 0, y: 0, w: 10, h: 10}
NotchBox == [x |-> 0, y |-> 0, w |-> 10 * Unit, h |-> 10 * Unit]

\* a solid block; a U (two stems and a bar); an L (a stem and a foot); an O
\* (a block with a counter, under the even-odd rule)
NotchOutlines ==
    [block |-> rectPath(0, 0, 10 * Unit, 10 * Unit),
     U |-> rectPath(0, 0, 2 * Unit, 10 * Unit) \o rectPath(8 * Unit, 0, 2 * Unit, 10 * Unit)
           \o rectPath(2 * Unit, 8 * Unit, 6 * Unit, 2 * Unit),
     L |-> rectPath(0, 0, 2 * Unit, 10 * Unit) \o rectPath(2 * Unit, 8 * Unit, 8 * Unit, 2 * Unit),
     O |-> rectPath(0, 0, 10 * Unit, 10 * Unit)
           \o rectPath(2 * Unit, 2 * Unit, 6 * Unit, 6 * Unit)]

NotchGlyph(shape) ==
    [char |-> shape, path_d |-> NotchOutlines[shape], bbox |-> NotchBox,
     advance |-> 10 * Unit]

\* the calls of applyNotchCut
NotchCalls ==
    {[fn |-> "applyNotchCut", glyph |-> NotchGlyph(shape), side |-> side, depth |-> d,
      width |-> w] :
        shape \in DOMAIN NotchOutlines, side \in {"inner", "outer", "top", "bottom"},
        d \in {<<1, 10>>, <<1, 5>>, <<3, 10>>}, w \in {<<1, 10>>, <<1, 5>>, <<3, 10>>}}

InitNotch == Parked /\ call \in NotchCalls /\ ret = << >>

CallApplyNotchCut ==
    /\ call.fn = "applyNotchCut"
    /\ ret = << >>
    /\ ret' = <<applyNotchCut(call.glyph, call.side, call.depth, call.width)>>
    /\ UNCHANGED <<call, customizerVars>>

NextNotch == CallApplyNotchCut

SpecNotch == InitNotch /\ [][NextNotch]_vars

\* the most path pieces of a path converted on its own
MaxPieces == 2

CurveTo(c1, c2, p) ==
    <<Cmd("C"), Num(c1[1]), Num(c1[2]), Num(c2[1]), Num(c2[2]), Num(p[1]), Num(p[2])>>

\* the pieces the paths converted are made of: rings with and without an
\* M, open and one-point rings, curves with and without a point before
\* them, commands whose numbers are missing
PathPieces ==
    [triangle |-> MoveTo(<<0, 0>>) \o LineTo(<<Unit, 0>>) \o LineTo(<<Unit, Unit>>)
                  \o <<Cmd("Z")>>,
     lineRing |-> LineTo(<<2 * Unit, Unit>>) \o LineTo(<<3 * Unit, Unit>>)
                  \o LineTo(<<3 * Unit, 2 * Unit>>) \o <<Cmd("Z")>>,
     open     |-> MoveTo(<<Unit, Unit>>) \o LineTo(<<2 * Unit, 2 * Unit>>),
     point    |-> MoveTo(<<Unit, 2 * Unit>>) \o <<Cmd("Z")>>,
     close    |-> <<Cmd("Z")>>,
     quadRing |-> MoveTo(<<0, 0>>) \o QuadTo(<<Unit, 0>>, <<Unit, Unit>>) \o <<Cmd("Z")>>,
     quad     |-> QuadTo(<<Unit, 0>>, <<Unit, Unit>>),
     cubic    |-> CurveTo(<<Unit, 0>>, <<Unit, Unit>>, <<0, Unit>>) \o <<Cmd("Z")>>,
     cubicRing |-> MoveTo(<<0, 0>>) \o CurveTo(<<Unit, 0>>, <<Unit, Unit>>, <<0, Unit>>)
                   \o <<Cmd("Z")>>,
     noNumbers |-> <<Cmd("M"), Cmd("L"), Num(Unit), Cmd("L"), Num(Unit), Num(Unit), Cmd("Z")>>]

\* the paths made of up to MaxPieces pieces
PiecePaths ==
    {Flatten([n \in 1..Len(names) |-> PathPieces[names[n]]]) :
        names \in UNION {[1..n -> DOMAIN PathPieces] : n \in 1..MaxPieces}}

ParseCalls ==
    {[fn |-> "pathDToPolygons", pathD |-> pathD, samples |-> DefaultSamples] :
        pathD \in PiecePaths}

InitParse == Parked /\ call \in ParseCalls /\ ret = << >>

CallPathDToPolygons ==
    /\ call.fn = "pathDToPolygons"
    /\ ret = << >>
    /\ ret' = <<pathDToPolygons(call.pathD, call.samples)>>
    /\ UNCHANGED <<call, customizerVars>>

NextParse == CallPathDToPolygons

SpecParse == InitParse /\ [][NextParse]_vars

\* the shapes clipped on their own: closed rings of at least three points (a
\* square, a square that overlaps it, a triangle, a square with a hole, a
\* ring without area, a rectangle that reaches beyond the clipper's range)
ClipShapes ==
    [square   |-> rectPath(0, 0, 2 * Unit, 2 * Unit),
     shifted  |-> rectPath(Unit, Unit, 2 * Unit, 2 * Unit),
     triangle |-> PathPieces.triangle,
     holed    |-> rectPath(0, 0, 3 * Unit, 3 * Unit) \o rectPath(Unit, Unit, Unit, Unit),
     sliver   |-> MoveTo(<<0, 0>>) \o LineTo(<<Unit, 0>>) \o <<Cmd("Z")>>,
     far      |-> rectPath(0, 0, ClipRange + Unit, Unit)]

\* what converts to rings of fewer than three points, or to none: nothing,
\* an open ring of two points, one that reaches beyond the clipper's range,
\* a closed single point
DegenerateRings ==
    [none    |-> << >>,
     open    |-> PathPieces.open,
     farOpen |-> MoveTo(<<0, 0>>) \o LineTo(<<2 * ClipRange, 0>>),
     point   |-> PathPieces.point]

\* an operand: a shape with degenerate rings after it
Operands ==
    {[shape |-> ClipShapes[sh], path_d |-> ClipShapes[sh] \o DegenerateRings[dg],
      degenerate |-> dg] :
        sh \in DOMAIN ClipShapes, dg \in DOMAIN DegenerateRings}

\* the calls of union and subtract
ClipCalls ==
    {[fn |-> fn, pathD |-> a.path_d, shapePathD |-> b.path_d, subj |-> a, clip |-> b] :
        fn \in {"union", "subtract"}, a \in Operands, b \in Operands}

InitClip == Parked /\ call \in ClipCalls /\ ret = << >>

CallUnion ==
    /\ call.fn = "union"
    /\ ret = << >>
    /\ ret' = <<union(call.pathD, call.shapePathD)>>
    /\ UNCHANGED <<call, customizerVars>>

CallSubtract ==
    /\ call.fn = "subtract"
    /\ ret = << >>
    /\ ret' = <<subtract(call.pathD, call.shapePathD)>>
    /\ UNCHANGED <<call, customizerVars>>

NextClip == CallUnion \/ CallSubtract

SpecClip == InitClip /\ [][NextClip]_vars

\* the most round trips made of one path
MaxTrips == 3

\* the rectangles converted back and forth: x, y, w, h in source units on
\* the grid (among them the 10 x 10 square), and in multiples of 1e-7
GridRectangles ==
    {[pathD |-> rectPath(x * Unit, y * Unit, w * Unit, h * Unit), exp |-> 0] :
        x \in {0, 1}, y \in {0, 2}, w \in {1, 3, 10}, h \in {2, 5, 10}}

TinyRectangles ==
    {[pathD |-> rectPath(x, y, w, h), exp |-> TinyExp] :
        x \in {0, 1}, y \in {0, 2}, w \in {1, 3}, h \in {2, 5}}

RoundTripCalls ==
    {[fn |-> "roundTrip", pathD |-> r.pathD, exp |-> r.exp] :
        r \in GridRectangles \cup TinyRectangles}

InitRoundTrip == Parked /\ call \in RoundTripCalls /\ ret = << >>

\* the path that the next round trip starts from
TripInput == IF ret = << >> THEN [pathD |-> call.pathD, exp |-> call.exp] ELSE ret[Len(ret)]

\* polygonsToPathD(pathDToPolygons(pathD)): what is read from the path
\* printed is on the grid
RoundTrip ==
    /\ call.fn = "roundTrip"
    /\ Len(ret) < MaxTrips
    /\ ret' = Append(ret,
                 [pathD |-> PolygonsPathD(pathDToPolygons(TripInput.pathD,
                                                          DefaultSamples).polygons,
                                          TripInput.exp),
                  exp |-> 0])
    /\ UNCHANGED <<call, customizerVars>>

NextRoundTrip == RoundTrip

SpecRoundTrip == InitRoundTrip /\ [][NextRoundTrip]_vars

\* ------------------------------------------------------- motif marks ----
\* A 32-bit integer is the pair <<hi, lo>> of its 16-bit halves (two's
\* complement), so that no step leaves the range of the model's integers.
Half == 65536

\* h << 5
ShiftLeft5(h) == <<(h[1] * 32 + (h[2] * 32) \div Half) % Half, (h[2] * 32) % Half>>

\* a - b, wrapped to 32 bits
Minus32(a, b) ==
    LET borrow == IF a[2] < b[2] THEN 1 ELSE 0
    IN  <<(a[1] + Half - b[1] - borrow) % Half, (a[2] + Half - b[2]) % Half>>

\* a + c for a 16-bit code unit c, wrapped to 32 bits
Plus32(a, c) == <<(a[1] + (a[2] + c) \div Half) % Half, (a[2] + c) % Half>>

\* h = (h << 5) - h + seed.charCodeAt(i); h |= 0.  The sum is exact before
\* `| 0` wraps it, so wrapping each step gives the same 32 bits.
HashStep(h, c) == Plus32(Minus32(ShiftLeft5(h), h), c)

\* the signed 32-bit integers; `h |= 0` leaves one in h
Int32 == (0..(Half - 1)) \X (0..(Half - 1))

\* the loop of hashSeed from index i on
RECURSIVE HashLoop(_, _, _)
HashLoop(seed, i, h) ==
    IF i > Len(seed) \/ h \notin Int32 THEN h
    ELSE HashLoop(seed, i + 1, HashStep(h, seed[i]))

\* is the signed 32-bit integer negative?
IsNegative(h) == h[1] >= Half \div 2

\* |h| as an unsigned 32-bit magnitude (2^31 for h = -2^31)
Magnitude(h) == IF IsNegative(h) THEN Minus32(<<0, 0>>, h) ELSE h

\* the number h with its sign left in place
KeepSign(h) == [neg |-> IsNegative(h), mag |-> Magnitude(h)]

\* Math.abs(h): a double, so 2^31 for h = -2^31
MathAbs(h) == [neg |-> FALSE, mag |-> Magnitude(h)]

\* hashSeed(seed)
hashSeed(seed) == MathAbs(HashLoop(seed, 1, <<0, 0>>))

\* n % 6 of JavaScript: the sign of the dividend; 65536 = 4 (mod 6)
Mod6(n) ==
    LET m == ((n.mag[1] % 6) * 4 + n.mag[2]) % 6
    IN  IF n.neg THEN 0 - m ELSE m

\* buildMarkPath: variant !== undefined ? variant : seedNum % 6.  A variant
\* is << >> when undefined and <<v>> for the number v, a rational.
Variation(variant, seedNum) ==
    IF variant # << >> THEN variant[1] ELSE <<Mod6(seedNum), 1>>

\* the longest seed hashed
MaxSeedLen == 5

\* code units of the seeds
SeedUnits == {2, 9, 12, 30, 2325}

Seeds == UNION {[1..n -> SeedUnits] : n \in 0..MaxSeedLen}

HashCalls == {[fn |-> "buildMarkPath", seed |-> sd, variant |-> << >>] : sd \in Seeds}

InitHash == Parked /\ call \in HashCalls /\ ret = << >>

\* the first lines of buildMarkPath
CallBuildMarkPath ==
    /\ call.fn = "buildMarkPath"
    /\ ret = << >>
    /\ ret' = <<[seedNum |-> hashSeed(call.seed),
                 variation |-> Variation(call.variant, hashSeed(call.seed))]>>
    /\ UNCHANGED <<call, customizerVars>>

NextHash == CallBuildMarkPath

SpecHash == InitHash /\ [][NextHash]_vars

\* A string an input supplies is the sequence of its characters; the text
\* of an SVG is a sequence of pieces: Chr(c) for a character of an input,
\* Lit(t) for text of the template, PathData(t) for the path data a builder
\* returns.  Template text and path data hold no "<text", and none ends
\* with a beginning of it where an input follows.
Chr(c) == [k |-> "chr", v |-> c]
Lit(t) == [k |-> "lit", v |-> t]
PathData(t) == [k |-> "d", v |-> t]

Chars(str) == [i \in 1..Len(str) |-> Chr(str[i])]

\* str.includes("<text") looked for at the start of the text only
StartsWithText(svg) ==
    /\ Len(svg) >= 5
    /\ svg[1] = Chr("<") /\ svg[2] = Chr("t") /\ svg[3] = Chr("e")
    /\ svg[4] = Chr("x") /\ svg[5] = Chr("t")

\* mark_svg.includes("<text")
IncludesText(svg) ==
    \E i \in 1..(Len(svg) - 4) :
        /\ svg[i] = Chr("<") /\ svg[i + 1] = Chr("t") /\ svg[i + 2] = Chr("e")
        /\ svg[i + 3] = Chr("x") /\ svg[i + 4] = Chr("t")

\* MotifFamilyEnum, in the order of allFamilies in runExecutorAgent
AllFamilies == <<"loop", "interlock", "orbit", "fold", "swap", "monogram-interlock">>

\* a character left in its case
KeepCase(c) == c

\* String.prototype.toUpperCase on the characters used here
ToUpperCase(c) ==
    CASE c = "a" -> "A" [] c = "b" -> "B" [] c = "t" -> "T"
      [] c = "e" -> "E" [] c = "x" -> "X" [] OTHER -> c

\* brandName.trim().split(/\s+/).filter(Boolean): where the words start
WordStarts(brandName) ==
    {i \in 1..Len(brandName) :
        brandName[i] # " " /\ (i = 1 \/ brandName[i - 1] = " ")}

\* the start of the n-th word (n = 1, 2), 0 if there is none
WordStart(brandName, n) ==
    LET first == IF WordStarts(brandName) = {} THEN 0
                 ELSE CHOOSE i \in WordStarts(brandName) :
                          \A j \in WordStarts(brandName) : i <= j
        rest  == WordStarts(brandName) \ {first}
    IN  IF n = 1 THEN first
        ELSE IF rest = {} THEN 0
        ELSE CHOOSE i \in rest : \A j \in rest : i <= j

\* Lengths of a mark are in hundredths of the source's unit.  An arc
\* command `A rx ry 0 large sweep x y` of a path is kept with the point it
\* starts from; the arcs of a path are grouped by subpath.
Arc(r, large, sweep, from, to) ==
    [rx |-> r, ry |-> r, large |-> large, sweep |-> sweep, from |-> from, to |-> to]

\* the arcs of the path buildMonogramInterlock returns when textToPath
\* raises: path1 + " " + path2 with c = grid / 2 and r = grid * 0.36
FallbackArcs(grid) ==
    LET c == 50 * grid
        r == 36 * grid
    IN  << <<Arc(r, 1, 1, <<c - r, c>>, <<c + r, c>>), Arc(r, 1, 1, <<c + r, c>>, <<c - r, c>>)>>,
           <<Arc(r, 1, 1, <<c, c - r>>, <<c, c + r>>), Arc(r, 1, 1, <<c, c + r>>, <<c, c - r>>)>> >>

\* the arcs of buildOrbit: two crescents between the radii grid * 0.36 and
\* grid * 0.24 with a gap of 60 degrees (cos 60 = 1/2, sin 60 = 0.866), or
\* two open arcs when stroked
OrbitArcs(grid, useFill) ==
    LET c  == 50 * grid
        r1 == 36 * grid
        r2 == 24 * grid
        s1 == Round(r1 * 866, 1000)
        s2 == Round(r2 * 866, 1000)
    IN  IF useFill
        THEN << <<Arc(r1, 0, 1, <<c + r1 \div 2, c - s1>>, <<c + r1 \div 2, c + s1>>),
                  Arc(r2, 0, 0, <<c + r2 \div 2, c + s2>>, <<c + r2 \div 2, c - s2>>)>>,
                <<Arc(r1, 0, 1, <<c - r1 \div 2, c + s1>>, <<c - r1 \div 2, c - s1>>),
                  Arc(r2, 0, 0, <<c - r2 \div 2, c - s2>>, <<c - r2 \div 2, c + s2>>)>> >>
        ELSE << <<Arc(r1, 0, 1, <<c, c - r1>>, <<c + Round(r1 * 7, 10), c>>)>>,
                <<Arc(r2, 0, 0, <<c, c + r2>>, <<c - Round(r2 * 7, 10), c>>)>> >>

\* buildMonogramInterlock; fontLoads tells whether textToPath returns or
\* raises.  The result is the list of <path> elements' d and transform.
buildMonogramInterlock(grid, brandName, fontLoads) ==
    LET firstInitial  == IF WordStart(brandName, 1) = 0 THEN "A"
                         ELSE ToUpperCase(brandName[WordStart(brandName, 1)])
        secondInitial == IF WordStart(brandName, 2) = 0 THEN firstInitial
                         ELSE ToUpperCase(brandName[WordStart(brandName, 2)])
        useTwo        == WordStart(brandName, 2) # 0 /\ firstInitial # secondInitial
    IN  IF ~fontLoads
        THEN <<[d |-> PathData("two arcs"), transform |-> << >>, arcs |-> FallbackArcs(grid)]>>
        ELSE IF ~useTwo
        THEN <<[d |-> PathData(firstInitial), transform |-> << >>, arcs |-> << >>]>>
        ELSE <<[d |-> PathData(firstInitial), transform |-> <<Lit("translate scale")>>,
                arcs |-> << >>],
               [d |-> PathData(secondInitial), transform |-> <<Lit("translate scale")>>,
                arcs |-> << >>]>>

\* buildMarkPath: the builder called, what it is handed in the place of
\* the variation, and the path or paths it returns
buildMarkPath(input, fontLoads) ==
    LET seedNum   == hashSeed(input.seed)
        variation == Variation(input.variant, seedNum)
    IN  IF input.motif_family = "monogram-interlock"
        THEN [builder |-> input.motif_family, variation |-> << >>, seedNum |-> <<seedNum>>,
              paths |-> buildMonogramInterlock(input.grid, input.brand_name, fontLoads)]
        ELSE [builder |-> input.motif_family, variation |-> <<variation>>, seedNum |-> << >>,
              paths |-> <<[d |-> PathData(input.motif_family), transform |-> << >>,
                           arcs |-> IF input.motif_family = "orbit"
                                    THEN OrbitArcs(input.grid, input.use_fill)
                                    ELSE << >>]>>]

\* pathAttrs of generateMotifMark
PathAttrs(input) ==
    IF input.use_fill
    THEN <<Lit("fill=\"")>> \o Chars(input.primary_hex)
         \o <<Lit("\" fill-rule=\"evenodd\" stroke=\"none\"")>>
    ELSE <<Lit("fill=\"none\" stroke=\"")>> \o Chars(input.primary_hex)
         \o <<Lit("\" stroke-width=\"effectiveStrokePx\" stroke-linecap=\"round\" stroke-linejoin=\"round\"")>>

\* one <path> element of pathContent
PathElement(path, input) ==
    <<Lit("  <path d=\""), path.d, Lit("\" ")>> \o PathAttrs(input)
    \o (IF path.transform = << >> THEN << >>
        ELSE <<Lit(" transform=\"")>> \o path.transform \o <<Lit("\"")>>)
    \o <<Lit(" />")>>

\* pathContent: the elements joined by line feeds
PathContent(paths, input) ==
    Flatten([k \in 1..Len(paths) |->
                (IF k = 1 THEN << >> ELSE <<Lit("\n")>>) \o PathElement(paths[k], input)])

\* the mark_svg template
MarkSvg(paths, input) ==
    <<Lit("<svg xmlns=\"http://www.w3.org/2000/svg\" width=\"grid\" height=\"grid\" viewBox=\"0 0 grid grid\" role=\"img\" aria-label=\"")>>
    \o Chars(input.brand_name) \o <<Lit(" mark\">\n")>>
    \o PathContent(paths, input) \o <<Lit("\n</svg>")>>

\* generateMotifMark(input): what it returns, or that it throws
generateMotifMark(input, fontLoads) ==
    LET built    == buildMarkPath(input, fontLoads)
        mark_svg == MarkSvg(built.paths, input)
    IN  [thrown   |-> IncludesText(mark_svg),
         mark_svg |-> IF IncludesText(mark_svg) THEN << >> ELSE mark_svg,
         builder  |-> built.builder,
         variation |-> built.variation,
         seedNum  |-> built.seedNum,
         arcs     |-> Flatten([k \in 1..Len(built.paths) |-> built.paths[k].arcs])]

\* a ZodError of MotifMarkInputSchema.parse, or a throw of a caller before
\* the builder is reached
Rejected ==
    [thrown |-> TRUE, mark_svg |-> << >>, builder |-> "", variation |-> << >>,
     seedNum |-> << >>, arcs |-> << >>]

HexDigits == {"0", "1", "a", "A", "f"}

\* primary_hex: /^#(?:[0-9a-fA-F]{3}){1,2}$/
IsHexColor(str) ==
    /\ Len(str) \in {4, 7}
    /\ str[1] = "#"
    /\ \A i \in 2..Len(str) : str[i] \in HexDigits

\* MotifMarkInputSchema: brand_name min(1), primary_hex a hex colour,
\* variant a number from 0 to 5 if given
SchemaAccepts(args) ==
    /\ Len(args.brand_name) >= 1
    /\ IsHexColor(args.primary_hex)
    /\ args.variant # << >> =>
           /\ RLess(<<0, 1>>, args.variant[1]) \/ REq(<<0, 1>>, args.variant[1])
           /\ RLess(args.variant[1], <<5, 1>>) \/ REq(args.variant[1], <<5, 1>>)

BrandNames ==
    {<< >>, <<" ">>, <<"a">>, <<"a", " ", "b">>, <<"a", " ", "a">>, <<"a", " ", "A">>,
     <<" ", "b", " ", " ", "a", " ", "t">>,
     <<"<", "t", "e", "x", "t">>, <<"a", "<", "t", "e", "x", "t", ">">>,
     <<"<", "t", "e", "x">>, <<"<", "T", "e", "x", "t">>,
     <<"<", "t", "<", "t", "e", "x", "t">>}

PrimaryHexes == {<<"#", "1", "a", "1">>, <<"<", "t", "e", "x", "t">>}

MotifSeeds == {<< >>, <<2>>, <<2325, 9, 30, 12, 2>>}

\* variants a caller of the tool may send
ToolVariants ==
    {<< >>, <<<<0, 1>>>>, <<<<5, 2>>>>, <<<<5, 1>>>>, <<<<6, 1>>>>, <<<<0 - 1, 1>>>>}

ToolCalls ==
    {[fn |-> "motif_mark", brand_name |-> b, motif_family |-> AllFamilies[f], seed |-> sd,
      primary_hex |-> hx, variant |-> v, use_fill |-> u, i |-> 0] :
        b \in BrandNames, f \in 1..Len(AllFamilies), sd \in MotifSeeds,
        hx \in PrimaryHexes, v \in ToolVariants, u \in BOOLEAN}

\* the call in runCreativeDirector: no variant
DirectCalls ==
    {[fn |-> "generateMotifMark", brand_name |-> b, motif_family |-> AllFamilies[f],
      seed |-> sd, primary_hex |-> hx, variant |-> << >>, use_fill |-> TRUE, i |-> 0] :
        b \in BrandNames, f \in 1..Len(AllFamilies), sd \in MotifSeeds,
        hx \in PrimaryHexes}

\* the candidates of runExecutorAgent: i = 0..2 of the chosen family, then
\* i = 0..5 of the adjacent families
CandidateCalls ==
    {c \in {[fn |-> kind, brand_name |-> b, motif_family |-> AllFamilies[f],
             seed |-> sd, primary_hex |-> hx, variant |-> << >>, use_fill |-> TRUE,
             i |-> i] :
               kind \in {"chosen", "adjacent"},
               b \in BrandNames, f \in 1..Len(AllFamilies), sd \in MotifSeeds,
               hx \in PrimaryHexes, i \in 0..5} :
        c.fn = "chosen" => c.i <= 2}

InitMotif ==
    /\ Parked
    /\ call \in ToolCalls \cup DirectCalls \cup CandidateCalls
    /\ ret = << >>

\* grid: 24 in every caller, and the default of MotifMarkInputSchema
Grid == 24

\* the input record of generateMotifMark made from a call
InputOf(c, family, seed, variant) ==
    [brand_name |-> c.brand_name, motif_family |-> family, seed |-> seed, grid |-> Grid,
     primary_hex |-> c.primary_hex, variant |-> variant, use_fill |-> c.use_fill]

\* motif_mark.execute: MotifMarkInputSchema.parse(args), generateMotifMark
CallMotifMarkTool ==
    /\ call.fn = "motif_mark"
    /\ ret = << >>
    /\ \E fontLoads \in BOOLEAN :
          ret' = <<IF SchemaAccepts(call)
                   THEN generateMotifMark(InputOf(call, call.motif_family, call.seed,
                                                  call.variant), fontLoads)
                   ELSE Rejected>>
    /\ UNCHANGED <<call, customizerVars>>

\* generateMotifMark called by runCreativeDirector
CallGenerateMotifMark ==
    /\ call.fn = "generateMotifMark"
    /\ ret = << >>
    /\ \E fontLoads \in BOOLEAN :
          ret' = <<generateMotifMark(InputOf(call, call.motif_family, call.seed,
                                             call.variant), fontLoads)>>
    /\ UNCHANGED <<call, customizerVars>>

\* the sum of a seed's code units
RECURSIVE CodeUnitSum(_)
CodeUnitSum(seed) == IF seed = << >> THEN 0 ELSE Head(seed) + CodeUnitSum(Tail(seed))

\* baseVariant of runExecutorAgent
BaseVariant(seed) == CodeUnitSum(seed) % 6

\* `${seed}-chosen-${i}` and `${seed}-adjacent-${i}` in code units
CandidateSeed(seed, kind, i) ==
    seed \o (IF kind = "chosen" THEN <<45, 99, 104, 111, 115, 101, 110, 45>>
             ELSE <<45, 97, 100, 106, 97, 99, 101, 110, 116, 45>>) \o <<48 + i>>

\* adjacentFamilies of runExecutorAgent: the other families in the order
\* of allFamilies, from the one after the chosen family on
AdjacentFamilies(motifFamily) ==
    LET idx == CHOOSE k \in 1..Len(AllFamilies) : AllFamilies[k] = motifFamily
    IN  [k \in 1..(Len(AllFamilies) - 1) |-> AllFamilies[((idx - 1 + k) % Len(AllFamilies)) + 1]]

\* one candidate of runExecutorAgent
GenerateCandidate ==
    /\ call.fn \in {"chosen", "adjacent"}
    /\ ret = << >>
    /\ \E fontLoads \in BOOLEAN :
          ret' = <<generateMotifMark(
                     InputOf(call,
                             IF call.fn = "chosen" THEN call.motif_family
                             ELSE AdjacentFamilies(call.motif_family)[
                                      (call.i % Len(AdjacentFamilies(call.motif_family))) + 1],
                             CandidateSeed(call.seed, call.fn, call.i),
                             <<<<(BaseVariant(call.seed) + call.i) % 6, 1>>>>),
                     fontLoads)>>
    /\ UNCHANGED <<call, customizerVars>>

NextMotif == CallMotifMarkTool \/ CallGenerateMotifMark \/ GenerateCandidate

SpecMotif == InitMotif /\ [][NextMotif]_vars

\* --------------------------------------------------- wordmark scoring ----
\* the largest r in lo..hi with r * r <= n (lo * lo <= n)
RECURSIVE SqrtBetween(_, _, _)
SqrtBetween(n, lo, hi) ==
    IF lo >= hi THEN lo
    ELSE LET mid == (lo + hi + 1) \div 2
         IN  IF mid * mid <= n THEN SqrtBetween(n, mid, hi) ELSE SqrtBetween(n, lo, mid - 1)

\* Math.sqrt(n) rounded down and rounded up, for n below 2^31
FloorSqrt(n) == SqrtBetween(n, 0, 46340)

CeilSqrt(n) == IF FloorSqrt(n) * FloorSqrt(n) = n THEN FloorSqrt(n) ELSE FloorSqrt(n) + 1

\* no deviation at all
NoDeviation(advances) == 0

\* variance * advances.length^2: with n values of sum s this is
\* n * (v1^2 + ... + vn^2) - s^2
SquaredDeviation(advances) ==
    Len(advances) * SumSeq([k \in 1..Len(advances) |-> advances[k] * advances[k]])
      - SumSeq(advances) * SumSeq(advances)

\* breakdown.spacingConsistency of runWordmarkEvaluator in tenths:
\* Math.round(x * 10) for x = max(0, 100 - (stddev / mean) * 200), where
\* stddev / mean = sqrt(SquaredDeviation) / sum.  The tenths are 1000 - k for
\* the least k with k >= 2000 * stddev / mean - 1/2.
SpacingConsistency(advances) ==
    IF Len(advances) < 2 \/ SumSeq(advances) <= 0 THEN 1000
    ELSE Max2(0, 1000 - ((CeilSqrt(16000000 * SquaredDeviation(advances))
                            + SumSeq(advances) - 1) \div (2 * SumSeq(advances))))

\* flags.push("inconsistent_spacing"): spacingConsistency < 50 before it is
\* rounded, that is stddev / mean > 1/4
InconsistentSpacing(advances) ==
    /\ Len(advances) >= 2
    /\ SumSeq(advances) > 0
    /\ 16 * SquaredDeviation(advances) > SumSeq(advances) * SumSeq(advances)

\* advances of two or three glyphs, and two pairs of nearly even advances
AdvanceLists ==
    UNION {[1..n -> {0 - 1, 0, 1, 2, 3, 4, 6}] : n \in {2, 3}}
      \cup {<<10000, 10001>>, <<9999, 10002>>, <<10000, 10000>>, <<9998, 10003>>}

InitEvaluator ==
    /\ Parked
    /\ call \in {[fn |-> "runWordmarkEvaluator", advances |-> a] : a \in AdvanceLists}
    /\ ret = << >>

\* runWordmarkEvaluator: the spacing score and its flag.  The other scores
\* are computed from bbox, paths and metrics and do not read advances.
CallRunWordmarkEvaluator ==
    /\ call.fn = "runWordmarkEvaluator"
    /\ ret = << >>
    /\ ret' = <<[spacingConsistency |-> SpacingConsistency(call.advances),
                 inconsistent_spacing |-> InconsistentSpacing(call.advances)]>>
    /\ UNCHANGED <<call, customizerVars>>

NextEvaluator == CallRunWordmarkEvaluator

SpecEvaluator == InitEvaluator /\ [][NextEvaluator]_vars

\* ------------------------------------------------ selection by score ----
\* candidates are numbered from 1 in the order they are generated

\* motifCandidates.reduce((best, current) => current.score >= best.score ?
\* current : best), which prefers the latest
LatestCandidate(scores) ==
    CHOOSE i \in 1..Len(scores) :
        /\ \A j \in 1..Len(scores) : scores[j] <= scores[i]
        /\ \A j \in (i + 1)..Len(scores) : scores[j] < scores[i]

\* motifCandidates.reduce((best, current) => current.score > best.score ?
\* current : best) from candidate i on, best being the candidate kept so far
RECURSIVE ReduceCandidates(_, _, _)
ReduceCandidates(scores, i, best) ==
    IF i > Len(scores) THEN best
    ELSE ReduceCandidates(scores, i + 1, IF scores[i] > scores[best] THEN i ELSE best)

\* bestCandidate of runExecutorAgent
BestCandidate(scores) == ReduceCandidates(scores, 2, 1)

\* scoreReadability(out, brandName)
scoreReadability(out) ==
    LET height == Max2(out.height, 1)
    IN  IF out.width > 12 * height THEN 0
        ELSE IF 2 * out.width < 3 * height THEN 2
        ELSE IF out.width > 8 * height THEN 4
        ELSE IF out.width > 5 * height THEN 7
        ELSE 10

\* wordmarkVariants.reduce((a, b) => scoreReadability(a) >= scoreReadability(b)
\* ? a : b) from variant i on
RECURSIVE ReduceWordmarks(_, _, _)
ReduceWordmarks(outs, i, a) ==
    IF i > Len(outs) THEN a
    ELSE ReduceWordmarks(outs, i + 1,
                         IF scoreReadability(outs[a]) >= scoreReadability(outs[i])
                         THEN a ELSE i)

\* bestWordmark of buildWordmarkSvg
BestWordmark(outs) == ReduceWordmarks(outs, 2, 1)

\* variants.push of runWordmarkVariants: the variants whose engine run
\* returned, in the order of VARIANT_PARAMS, from run i on
RECURSIVE PushVariants(_, _)
PushVariants(runs, i) ==
    IF i > Len(runs) THEN << >>
    ELSE (IF runs[i].ok THEN <<[variantIndex |-> i - 1, totalScore |-> runs[i].totalScore]>>
          ELSE << >>) \o PushVariants(runs, i + 1)

\* one variant put into a list sorted by falling totalScore, behind the
\* variants of the same totalScore
InsertVariant(sorted, v) ==
    LET before == {k \in 1..Len(sorted) : sorted[k].totalScore >= v.totalScore}
    IN  SubSeq(sorted, 1, Cardinality(before)) \o <<v>>
        \o SubSeq(sorted, Cardinality(before) + 1, Len(sorted))

\* variants.sort((a, b) => b.evaluation.totalScore - a.evaluation.totalScore):
\* Array.prototype.sort is stable
RECURSIVE SortVariants(_)
SortVariants(variants) ==
    IF variants = << >> THEN << >>
    ELSE InsertVariant(SortVariants(SubSeq(variants, 1, Len(variants) - 1)),
                       variants[Len(variants)])

\* runWordmarkVariants: the ranking returned; when no engine run returned,
\* the one fallback variant
runWordmarkVariants(runs) ==
    IF PushVariants(runs, 1) = << >>
    THEN [variants |-> <<[variantIndex |-> 0, totalScore |-> 0]>>, bestIndex |-> 0]
    ELSE [variants |-> SortVariants(PushVariants(runs, 1)), bestIndex |-> 0]

\* the most engine runs of runWordmarkVariants that are followed
MaxVariants == 5

\* the motif candidates of runExecutorAgent: three of the chosen family
\* and six of the adjacent families
CandidateCount == 9

SelectionCalls ==
    {[fn |-> "bestCandidate", items |-> sc] : sc \in [1..CandidateCount -> {3, 10}]}
    \cup {[fn |-> "bestWordmark", items |-> o] :
            o \in UNION {[1..n -> {[width |-> w, height |-> 10] : w \in {10, 30, 60, 90, 130}}] :
                            n \in {1, 3}}}
    \cup {[fn |-> "runWordmarkVariants", items |-> r] :
            r \in UNION {[1..n -> {[ok |-> FALSE, totalScore |-> 0], [ok |-> TRUE, totalScore |-> 0],
                                   [ok |-> TRUE, totalScore |-> 405],
                                   [ok |-> TRUE, totalScore |-> 610]}] :
                            n \in 1..MaxVariants}}

InitSelection == Parked /\ call \in SelectionCalls /\ ret = << >>

\* runExecutorAgent: "Select best candidate"
SelectBestCandidate ==
    /\ call.fn = "bestCandidate"
    /\ ret = << >>
    /\ ret' = <<[chosen |-> BestCandidate(call.items)]>>
    /\ UNCHANGED <<call, customizerVars>>

\* buildWordmarkSvg: bestWordmark
SelectBestWordmark ==
    /\ call.fn = "bestWordmark"
    /\ ret = << >>
    /\ ret' = <<[chosen |-> BestWordmark(call.items)]>>
    /\ UNCHANGED <<call, customizerVars>>

\* runWordmarkVariants, from the engine runs on; chosen is the run whose
\* variant is variants[bestIndex]
CallRunWordmarkVariants ==
    /\ call.fn = "runWordmarkVariants"
    /\ ret = << >>
    /\ ret' = <<[chosen |-> runWordmarkVariants(call.items).variants[
                               runWordmarkVariants(call.items).bestIndex + 1].variantIndex + 1,
                 ranking |-> runWordmarkVariants(call.items).variants]>>
    /\ UNCHANGED <<call, customizerVars>>

NextSelection == SelectBestCandidate \/ SelectBestWordmark \/ CallRunWordmarkVariants

SpecSelection == InitSelection /\ [][NextSelection]_vars

\* ------------------------------------------------------------- claims ----

Passes == {"first", "retry"}

\* a step of the call can be taken: one of the guards holds (past its guard
\* a step only assigns)
Running == AtStart \/ InDeviceLoop \/ AfterDeviceLoop \/ InRetryLoop \/ AfterRetryLoop

\* the glyph indices a logged iteration consumed
Consumed(e) == IF e.applied THEN {e.ia, e.ib} \ {0} ELSE {}

\* the letters a device names, and the indices its lookups gave, slot by slot
Names(d) == IF IsSingle(d) THEN <<d.letter>> ELSE <<d.from, d.to>>

Looked(e) == IF IsSingle(e.device) THEN <<e.ia>> ELSE <<e.ia, e.ib>>

\* the glyph indices carrying a letter, whatever the case
Carrying(gs, letter) == {i \in 1..Len(gs) : toLowerCase(gs[i].char) = toLowerCase(letter)}

\* the k-th glyph carrying the letter, 0 when there are fewer
NthCarrying(gs, letter, k) ==
    IF k < 1 \/ k > Cardinality(Carrying(gs, letter)) THEN 0
    ELSE CHOOSE i \in Carrying(gs, letter) :
            Cardinality({j \in Carrying(gs, letter) : j < i}) = k - 1

\* the indices consumed in a pass before its n-th iteration
UsedBefore(pass, n) == UNION {Consumed(log[pass][m]) : m \in 1..(n - 1)}

\* the iteration of a pass that led to the present state, if one did: every
\* iteration is examined in the state it leads to
Latest(pass) ==
    IF pc = (IF pass = "first" THEN "devices" ELSE "retry")
    THEN {Len(log[pass])} \ {0} ELSE {}

\* the n-th device a pass is given
PlanDevice(pass, n) ==
    IF pass = "first" THEN planNorm.devices[n] ELSE Intensify(planNorm.devices[n])

\* C1: in either pass, once a device has been applied to a glyph, no later
\* device of that pass consumes that glyph or changes its outline.
C1_OneDevicePerGlyph ==
    \A pass \in Passes : \A m, n \in 1..Len(log[pass]) :
        m < n => \A i \in Consumed(log[pass][m]) :
            /\ i \notin Consumed(log[pass][n])
            /\ log[pass][n].after[i].path_d = log[pass][n].before[i].path_d

\* two devices naming one letter were both applied in the first pass
C1_TwoOnOneLetter ==
    \E m, n \in 1..Len(log.first) :
        /\ m < n
        /\ log.first[m].applied /\ log.first[n].applied
        /\ IsSingle(log.first[m].device) /\ IsSingle(log.first[n].device)
        /\ log.first[m].device.letter = log.first[n].device.letter
        /\ log.first[m].ia # log.first[n].ia

\* how many of the first n devices of a pass name the letter, counting
\* only the applied ones when onlyApplied
NamingUpTo(pass, n, letter, onlyApplied) ==
    Cardinality({m \in 1..n :
        /\ onlyApplied => log[pass][m].applied
        /\ \E s \in 1..Len(Names(log[pass][m].device)) :
              Names(log[pass][m].device)[s] = letter})

\* C2 (as amended): the devices run in plan order; every lookup gives the
\* lowest index that carries the letter and was not consumed before; and the
\* i-th applied device naming a letter is applied to the i-th glyph carrying it.
C2_AppliedInOrder ==
    \A pass \in Passes : \A n \in 1..Len(log[pass]) :
        LET e == log[pass][n]
        IN  /\ e.device = PlanDevice(pass, n)
            /\ \A s \in 1..Len(Names(e.device)) :
                   LET free == Carrying(e.before, Names(e.device)[s]) \ UsedBefore(pass, n)
                   IN  /\ Looked(e)[s] = IF free = {} THEN 0 ELSE SetMin(free)
                       /\ e.applied =>
                             Looked(e)[s] =
                                NthCarrying(e.before, Names(e.device)[s],
                                    NamingUpTo(pass, n, Names(e.device)[s], TRUE))

\* a device naming a letter was not applied though nothing threw, and the
\* next device naming that letter was applied to the first glyph carrying it
C2_SkippedDoesNotCount ==
    /\ Len(log.first) >= 2
    /\ ~log.first[1].applied /\ ~log.first[1].threw
    /\ IsSingle(log.first[2].device) /\ log.first[2].applied
    /\ \E s \in 1..Len(Names(log.first[1].device)) :
          Names(log.first[1].device)[s] = log.first[2].device.letter
    /\ log.first[2].ia = NthCarrying(log.first[2].before, log.first[2].device.letter, 1)

\* C2 (as stated): in a pass where no geometry operation throws, the i-th
\* device naming a letter modifies the i-th glyph carrying that letter
\* (whenever there is such a glyph).
C2_IthDeviceIthGlyph ==
    \A pass \in Passes :
        (\A m \in 1..Len(log[pass]) : ~log[pass][m].threw) =>
            \A n \in 1..Len(log[pass]) :
                LET e == log[pass][n]
                IN  \A s \in 1..Len(Names(e.device)) :
                       LET ith == NthCarrying(e.before, Names(e.device)[s],
                                      NamingUpTo(pass, n, Names(e.device)[s], FALSE))
                       IN  ith # 0 => e.applied /\ Looked(e)[s] = ith

\* the manifest target of a device of the caller's plan
ExpectedTarget(d) ==
    IF d.target = "single" THEN <<toLowerCase(d.letter)>>
    ELSE <<toLowerCase(d.from), "-", toLowerCase(d.to)>>

\* a lookup of the iteration found no unused glyph carrying the letter
NotFound(e) == \E s \in 1..Len(Looked(e)) : Looked(e)[s] = 0

\* both lookups of a ligature bridge gave one and the same glyph
SameGlyph(e) == ~IsSingle(e.device) /\ e.ia # 0 /\ e.ia = e.ib

\* the manifest has one entry per device of the plan, in plan order, and
\* the n-th is applied unless a lookup of the n-th iteration found no glyph
\* or its geometry threw or, when sameGlyphFails, its lookups gave one glyph
ManifestBy(sameGlyphFails) ==
    /\ Len(log.first) = Len(plan.devices)
    /\ Len(result.manifest) = Len(plan.devices)
    /\ \A n \in 1..Len(plan.devices) :
          result.manifest[n] =
              [device |-> plan.devices[n].kind, target |-> ExpectedTarget(plan.devices[n]),
               applied |-> ~(\/ NotFound(log.first[n])
                             \/ log.first[n].threw
                             \/ sameGlyphFails /\ SameGlyph(log.first[n]))]

\* C3 (as amended): the call is never stuck before it returns, and the
\* manifest returned has exactly one entry per device of the plan, in plan
\* order, with applied = false when a lookup finds no unused matching glyph,
\* when both lookups of a ligature bridge give the same glyph, or when the
\* geometry throws, and applied = true otherwise.
C3_ManifestPerDevice ==
    /\ pc # "done" => Running
    /\ pc = "done" => ManifestBy(TRUE)

\* a call returned after a device whose geometry threw and a later device
\* that was applied
C3_ThrowThenApplied ==
    /\ pc = "done"
    /\ Len(result.manifest) = 2
    /\ log.first[1].threw /\ ~result.manifest[1].applied
    /\ result.manifest[2].applied

\* C3 (as stated): the manifest returned has one entry per device, in plan
\* order, with applied = false when no unused matching glyph is found or the
\* geometry throws, and applied = true otherwise.
C3_AppliedUnlessMissingOrThrown ==
    pc = "done" => ManifestBy(FALSE)

\* C4 (as stated): with no devices and compression 1 the call returns an
\* empty manifest and a path identical to base.path_d.
C4_EmptyPlanReturnsBasePath ==
    (/\ pc = "done"
     /\ plan.devices = << >>
     /\ plan.boldness.compression[1] = plan.boldness.compression[2])
        => result.manifest = << >> /\ result.wordmark_path_d = base.path_d

\* C5: a call makes at most two passes over the devices, each pass visits
\* every device at most once, the call is never stuck before it returns,
\* and nothing runs once it has returned, whatever the metrics returned.
C5_AtMostTwoPasses ==
    /\ Len(log.first) <= Len(plan.devices)
    /\ Len(log.retry) <= Len(plan.devices)
    /\ pc = "devices" => dev = Len(log.first) + 1 /\ log.retry = << >>
    /\ pc = "retry" => dev = Len(log.retry) + 1 /\ Len(log.first) = Len(plan.devices)
    /\ pc # "done" => Running
    /\ pc = "done" => ~Running /\ Len(log.retry) = (IF log.retried THEN Len(plan.devices) ELSE 0)

\* a call returned after a retry whose metrics still ask for a retry
C5_RetryStillLowVisibility ==
    /\ pc = "done"
    /\ log.retried
    /\ Len(log.retry) = MaxDevices
    /\ result.metrics # log.measured[1]
    /\ NeedsRetry(result.metrics)

\* device_visibility < 6 or default_font_risk > 95, on the metric values
LowVisibility(m) ==
    \/ m.device_visibility[1] < 6 * m.device_visibility[2]
    \/ m.default_font_risk[1] > 95 * m.default_font_risk[2]

\* the non-empty glyph paths of gs, joined by blanks
Joined(gs) == JoinBlank(SelectSeq([n \in 1..Len(gs) |-> gs[n].path_d], LAMBDA q : q # << >>))

\* the result the first pass returns
FirstPassResult ==
    /\ result.wordmark_path_d = (IF Joined(glyphs) # << >> THEN Joined(glyphs) ELSE base.path_d)
    /\ result.metrics = log.measured[1]

\* C6: the retry runs exactly when the first pass's metrics have
\* device_visibility < 6 or default_font_risk > 95; a call that retried
\* returns the retry's path and the metrics recomputed for it exactly when
\* that path is not empty, and the first pass's path and metrics otherwise.
C6_RetryRule ==
    /\ log.measured # << >> => (log.retried <=> LowVisibility(log.measured[1]))
    /\ log.retry # << >> => log.retried
    /\ pc = "retry" => log.retried
    /\ pc = "done" =>
          IF log.retried /\ Joined(glyphs2) # << >>
          THEN /\ result.wordmark_path_d = Joined(glyphs2)
               /\ result.metrics = MetricsOf(pathArea(base.path_d), pathArea(Joined(glyphs2)))
          ELSE FirstPassResult

\* a call retried, the retry left no glyph path, and the first pass's
\* result was returned
C6_EmptyRetryKeepsFirst ==
    /\ pc = "done"
    /\ log.retried
    /\ log.retry # << >>
    /\ Joined(glyphs2) = << >>
    /\ FirstPassResult

\* the geometry of a logged single-glyph iteration gave an empty shape
YieldsEmpty(e) ==
    /\ IsSingle(e.device) /\ e.ia # 0 /\ ~e.threw
    /\ SingleOp(e.before, e.ia, e.device).path_d = << >>

\* every device of a pass that has ended was visited
PassesComplete ==
    /\ pc \in {"retry", "done"} => Len(log.first) = Len(plan.devices)
    /\ pc = "done" /\ log.retried => Len(log.retry) = Len(plan.devices)

\* C7 (as amended): a cut that yields an empty shape is no failure: the
\* device is applied (and recorded so in the manifest), the glyph is
\* consumed and its outline becomes empty, so that it is left out of the
\* recombined path, no other glyph changes, and the pass goes on.
C7_EmptyCutIsApplied ==
    /\ PassesComplete
    /\ \A pass \in Passes : \A n \in Latest(pass) :
          YieldsEmpty(log[pass][n]) =>
              /\ log[pass][n].applied
              /\ log[pass][n].ia \in UsedBefore(pass, n + 1)
              /\ pass = "first" => manifest[n].applied
              /\ log[pass][n].after =
                    [log[pass][n].before EXCEPT ![log[pass][n].ia].path_d = << >>]
              /\ Joined(log[pass][n].after) =
                    Joined([k \in 1..(Len(log[pass][n].before) - 1) |->
                              IF k < log[pass][n].ia THEN log[pass][n].before[k]
                              ELSE log[pass][n].before[k + 1]])

\* a cut of the first pass emptied its glyph and the next device was applied
C7_EmptiedThenNext ==
    \E n \in 1..(Len(log.first) - 1) :
        /\ YieldsEmpty(log.first[n])
        /\ log.first[n].before[log.first[n].ia].path_d # << >>
        /\ log.first[n + 1].applied

\* C7 (as stated): a cut that yields an empty shape is recorded in the
\* manifest and skipped, the glyph's outline staying as it was before the
\* device, and the pass goes on.
C7_EmptyCutLeavesGlyph ==
    /\ PassesComplete
    /\ \A pass \in Passes : \A n \in Latest(pass) :
          YieldsEmpty(log[pass][n]) =>
              /\ pass = "first" => Len(manifest) >= n
              /\ log[pass][n].after[log[pass][n].ia].path_d =
                    log[pass][n].before[log[pass][n].ia].path_d

\* the cells a path covers
CellsOf(pathD) == Region(ClipInput(pathDToPolygons(pathD, DefaultSamples).polygons))

\* how many rings of a polygon set cover a cell
RingsOver(polys, c) ==
    Cardinality({k \in 1..Len(polys) : InsideEvenOdd(<<polys[k]>>, c[1], c[2])})

\* the bridge shape of a logged ligature bridge
BridgeOf(e) ==
    BridgePath(BridgeRect(e.before[e.ia].bbox, e.before[e.ib].bbox,
                          e.device.thickness, e.device.y_pos))

\* C9: after a ligature bridge is applied to the glyphs A and B, A's path is
\* union(union(A, bridge), B) and covers what A, the bridge and B covered,
\* B's path is empty, no other glyph changed, both indices are used, and
\* every cell of B is covered by exactly one ring of the recombined path.
C9_BridgeMergesB ==
    \A pass \in Passes : \A n \in Latest(pass) :
        (~IsSingle(log[pass][n].device) /\ log[pass][n].applied) =>
            LET e == log[pass][n]
                A == e.before[e.ia]
                B == e.before[e.ib]
            IN  /\ e.after =
                      [e.before EXCEPT
                          ![e.ia].path_d =
                              union(union(A.path_d, BridgeOf(e)).path_d, B.path_d).path_d,
                          ![e.ib].path_d = << >>]
                /\ CellsOf(e.after[e.ia].path_d) =
                      CellsOf(A.path_d) \cup CellsOf(BridgeOf(e)) \cup CellsOf(B.path_d)
                /\ {e.ia, e.ib} \subseteq (IF pass = "first" THEN used ELSE used2)
                /\ \A c \in CellsOf(B.path_d) :
                      RingsOver(pathDToPolygons(Joined(e.after), DefaultSamples).polygons, c) = 1

\* a ligature bridge was applied to two glyphs with outlines, and the call
\* returned
C9_BridgeApplied ==
    /\ pc = "done"
    /\ \E n \in 1..Len(log.first) :
          /\ ~IsSingle(log.first[n].device) /\ log.first[n].applied
          /\ log.first[n].before[log.first[n].ia].path_d # << >>
          /\ log.first[n].before[log.first[n].ib].path_d # << >>
          /\ CellsOf(BridgeOf(log.first[n])) # {}

\* the areas of a call of computeMetrics, in half cells
AreaOrigOf(c) == IF c.originalArea = << >> THEN 2 * c.w1 * 10 ELSE c.originalArea[1]

AreaModOf(c) == 2 * c.w2 * c.h2

\* the metric value v is the quotient n / d (d > 0)
Is(v, n, d) == v[2] > 0 /\ v[1] * d = n * v[2]

InRange(v) == v[2] > 0 /\ 0 <= v[1] /\ v[1] <= 100 * v[2]

\* the reference formulas on the areas ao and am
Reference(m, ao, am) ==
    /\ Is(m.device_visibility,
          IF ao <= 0 THEN 0 ELSE IF Abs(ao - am) >= ao THEN 100 * ao ELSE 100 * Abs(ao - am),
          IF ao <= 0 THEN 1 ELSE ao)
    /\ Is(m.default_font_risk,
          IF ao <= 0 THEN 100 ELSE IF Abs(ao - am) >= ao THEN 0 ELSE 100 * (ao - Abs(ao - am)),
          IF ao <= 0 THEN 1 ELSE ao)
    /\ Is(m.silhouette_delta, IF ao > 0 /\ 100 * Abs(ao - am) >= 2 * ao THEN 100 ELSE 0, 1)
    /\ Is(m.legibility,
          IF ao > 0 /\ 100 * (ao - am) > 35 * ao
          THEN (IF 150 * (ao - am) >= 100 * ao THEN 0 ELSE 100 * ao - 150 * (ao - am))
          ELSE 100,
          IF ao > 0 /\ 100 * (ao - am) > 35 * ao THEN ao ELSE 1)

\* C8: computeMetrics gives the reference formulas' values for the areas of
\* its arguments, and each of the four values lies in [0, 100].
C8_ReferenceFormulas ==
    ret # << >> =>
        /\ Reference(ret[1], AreaOrigOf(call), AreaModOf(call))
        /\ InRange(ret[1].device_visibility) /\ InRange(ret[1].silhouette_delta)
        /\ InRange(ret[1].default_font_risk) /\ InRange(ret[1].legibility)

\* computeMetrics returned for an outline that grew to more than twice the
\* original area: the unclamped risk would be negative
C8_OutlineDoubled ==
    /\ ret # << >>
    /\ AreaOrigOf(call) > 0
    /\ AreaModOf(call) > 2 * AreaOrigOf(call)
    /\ Is(ret[1].default_font_risk, 0, 1)
    /\ Is(ret[1].device_visibility, 100, 1)

\* the columns a set of cells has ink in
Columns(cells) == {c[1] : c \in cells}

\* two sets of cells share a cell or have cells side by side
Touching(S, T) ==
    \E c \in S : \E d \in T : Abs(c[1] - d[1]) + Abs(c[2] - d[2]) <= 1

\* the bridge shape of a call of applyLigatureBridge
BridgeOfCall(c) == BridgePath(BridgeRect(c.glyphA.bbox, c.glyphB.bbox, c.thickness, c.y_pos))

\* the x coordinates of the points of a path
XsOf(pathD) == {q[1] : q \in PointsOf(pathDToPolygons(pathD, DefaultSamples).polygons)}

\* the path returned spans from A's left edge to B's right edge, has ink in
\* every column between them, and the bridge has ink in every column of the
\* gap, from A's right edge to B's left edge
SpansWithoutGap(c, pathD) ==
    /\ SetMin(XsOf(pathD)) = c.glyphA.bbox.x
    /\ SetMax(XsOf(pathD)) = c.glyphB.bbox.x + c.glyphB.bbox.w
    /\ Columns(CellsOf(pathD)) = c.glyphA.bbox.x..(c.glyphB.bbox.x + c.glyphB.bbox.w - 1)
    /\ (c.glyphA.bbox.x + c.glyphA.bbox.w)..(c.glyphB.bbox.x - 1)
          \subseteq Columns(CellsOf(BridgeOfCall(c)) \cap CellsOf(pathD))
    /\ SetMin(XsOf(BridgeOfCall(c))) = c.glyphA.bbox.x + c.glyphA.bbox.w
    /\ SetMax(XsOf(BridgeOfCall(c))) >= c.glyphB.bbox.x

\* C10 (as amended): for two glyphs a positive gap apart and every y_pos,
\* the path applyLigatureBridge returns spans from A's left edge to B's
\* right edge and leaves no column between them without ink: the bridge
\* rectangle starts at A's right edge and reaches B's left edge.
C10_BridgeSpansGap ==
    (ret # << >> /\ call.fn = "applyLigatureBridge") =>
        ~ret[1].thrown /\ SpansWithoutGap(call, ret[1].path_d)

\* a bridge at the cap line was returned for a lower-case letter and a
\* capital the widest gap apart
C10_CapBridgeReturned ==
    /\ ret # << >>
    /\ call.y_pos = "cap"
    /\ call.glyphA.bbox.h = XHeight /\ call.glyphB.bbox.h = CapHeight
    /\ call.glyphB.bbox.x - (call.glyphA.bbox.x + call.glyphA.bbox.w) = MaxGap
    /\ CellsOf(BridgeOfCall(call)) # {}
    /\ Touching(CellsOf(BridgeOfCall(call)), CellsOf(call.glyphA.path_d))

\* C10 (as stated): the path spans from A's left edge to B's right edge
\* without a horizontal gap, and the bridge rectangle touches both glyphs.
C10_BridgeTouchesBoth ==
    (ret # << >> /\ call.fn = "applyLigatureBridge") =>
        /\ ~ret[1].thrown /\ SpansWithoutGap(call, ret[1].path_d)
        /\ Touching(CellsOf(BridgeOfCall(call)), CellsOf(call.glyphA.path_d))
        /\ Touching(CellsOf(BridgeOfCall(call)), CellsOf(call.glyphB.path_d))


\* the cells of the glyph's ink that the wedge of the call covers
NotchedInk ==
    {c \in Region(pathDToPolygons(call.glyph.path_d, DefaultSamples).polygons) :
        InsideEvenOdd(pathDToPolygons(NotchWedge(call.glyph.bbox, call.side, call.depth,
                                                 call.width), DefaultSamples).polygons,
                      c[1], c[2])}

\* the call has the magnitudes depth = 0.3 and width = 0.3
ThreeTenths == call.depth = <<3, 10>> /\ call.width = <<3, 10>>

\* C11 (as amended): a notch cut never raises here and never adds area; it
\* strictly decreases the enclosed area exactly when the wedge covers ink of
\* the glyph, which it does on every side for a glyph that fills its
\* bounding box; a glyph without ink under the wedge keeps its area.
C11_NotchCutsInk ==
    ret # << >> =>
        /\ ~ret[1].thrown
        /\ pathArea(ret[1].path_d) <= pathArea(call.glyph.path_d)
        /\ pathArea(ret[1].path_d) < pathArea(call.glyph.path_d) <=> NotchedInk # {}
        /\ call.glyph.char = "block" => NotchedInk # {}

\* the block was notched on its inner side with depth 0.3 and width 0.3 and
\* lost area
C11_BlockNotched ==
    /\ ret # << >>
    /\ call.glyph.char = "block" /\ call.side = "inner" /\ ThreeTenths
    /\ pathArea(ret[1].path_d) < pathArea(call.glyph.path_d)
    /\ pathArea(ret[1].path_d) > 0

\* C11 (as stated): with depth 0.3 and width 0.3 the notch cut strictly
\* decreases the enclosed area of any glyph whose bounding box is
\* {x: 0, y: 0, w: 10, h: 10}, whatever the side.
C11_NotchDecreasesArea ==
    ret # << >> /\ ThreeTenths =>
        ~ret[1].thrown /\ pathArea(ret[1].path_d) < pathArea(call.glyph.path_d)


C13_ZRingsClosed ==
    ret # << >> =>
        \A k \in 1..Len(ret[1].polygons) :
            ret[1].byZ[k] =>
                ret[1].polygons[k][Len(ret[1].polygons[k])] = ret[1].polygons[k][1]

\* C14 (as stated): pathDToPolygons returns a list of polygons for every
\* path; it never raises.
C14_NeverRaises == ret # << >> => ~ret[1].thrown


\* the rings of an operand path that are added to the clipper
Added(pathD) == ClipInput(pathDToPolygons(pathD, DefaultSamples).polygons)

\* the clip type of the call
ClipTypeOf(fn) == IF fn = "union" THEN "ctUnion" ELSE "ctDifference"

\* C15: every ring that union or subtract adds to the clipper has at least
\* three points; the rings of fewer points that the conversion produced are
\* left out without an error: the call returns what it returns for the same
\* operands without them.
C15_DegenerateRingsDropped ==
    ret # << >> =>
        /\ \A k \in 1..Len(Added(call.pathD)) : Len(Added(call.pathD)[k]) >= 3
        /\ \A k \in 1..Len(Added(call.shapePathD)) : Len(Added(call.shapePathD)[k]) >= 3
        /\ ret[1] = ClipPaths(ClipTypeOf(call.fn), call.subj.shape, call.clip.shape)

\* a union returned a shape although an operand held a two-point ring that
\* reaches beyond the clipper's range
C15_FarOpenRingIgnored ==
    /\ ret # << >>
    /\ call.fn = "union"
    /\ call.subj.degenerate = "farOpen"
    /\ Len(pathDToPolygons(call.pathD, DefaultSamples).polygons) > Len(Added(call.pathD))
    /\ ~ret[1].thrown /\ ret[1].path_d # << >>

ShoelaceArea(pathD) == RingsArea(pathDToPolygons(pathD, DefaultSamples).polygons)

\* Is the area a of a path of decimal exponent e within 1% of the area a0
\* of a path of decimal exponent e0?  Areas with different exponents are
\* fourteen orders of magnitude apart unless both are 0.
WithinOnePercent(a0, e0, a, e) ==
    IF e = e0 THEN 100 * Abs(a - a0) <= a0 ELSE a = 0 /\ a0 = 0

\* C17 (as stated): after every round trip of an axis-aligned rectangle
\* path through pathDToPolygons and polygonsToPathD, however many were made,
\* the enclosed shoelace area is within 1% of the rectangle's.
C17_RoundTripKeepsArea ==
    \A n \in 1..Len(ret) :
        WithinOnePercent(ShoelaceArea(call.pathD), call.exp,
                         ShoelaceArea(ret[n].pathD), ret[n].exp)


\* h * 31 + c wrapped to 32 bits, by multiplication
Times31Plus(h, c) ==
    <<(h[1] * 31 + (h[2] * 31 + c) \div Half) % Half, (h[2] * 31 + c) % Half>>

\* the rolling hash h <- h * 31 + c folded over the code units from h = 0
RECURSIVE RollingHash(_, _, _)
RollingHash(seed, i, h) ==
    IF i > Len(seed) THEN h ELSE RollingHash(seed, i + 1, Times31Plus(h, seed[i]))

\* halves at the edges of the 16-bit range
EdgeHalves == {0, 1, 2047, 2048, 32768, 65535}

\* C18: without an explicit variant the variation is |H(seed)| mod 6 for
\* the wrapped rolling hash H with h <- h * 31 + c; the code's step
\* ((h << 5) - h + c) | 0 equals the wrapped h * 31 + c, for the words met
\* while hashing and for words at the edges of the range; and the variation
\* is an integer in 0..5, also when the hash is -2^31.
C18_VariationFromSeed ==
    /\ \A hi \in EdgeHalves, lo \in EdgeHalves, c \in SeedUnits \cup {0, Half - 1} :
           HashStep(<<hi, lo>>, c) = Times31Plus(<<hi, lo>>, c)
    /\ (call.fn = "buildMarkPath" /\ call.variant = << >>) =>
           \A k \in 1..Len(call.seed) :
               HashStep(HashLoop(SubSeq(call.seed, 1, k - 1), 1, <<0, 0>>), call.seed[k])
                 = Times31Plus(RollingHash(SubSeq(call.seed, 1, k - 1), 1, <<0, 0>>),
                               call.seed[k])
    /\ (call.fn = "buildMarkPath" /\ call.variant = << >> /\ ret # << >>) =>
           /\ ret[1].variation[2] = 1
           /\ ret[1].variation[1] \in 0..5
           /\ ret[1].variation[1]
                 = Mod6([neg |-> FALSE,
                         mag |-> Magnitude(RollingHash(call.seed, 1, <<0, 0>>))])

\* C18 witness: a seed whose hash is -2^31 has been hashed; its variation
\* is 2^31 mod 6 = 2
C18_HashIsMinInt ==
    /\ call.fn = "buildMarkPath" /\ call.variant = << >> /\ ret # << >>
    /\ HashLoop(call.seed, 1, <<0, 0>>) = <<Half \div 2, 0>>
    /\ ret[1].variation = <<2, 1>>


\* C19 (as stated): whenever a family builder is handed a variation, it is
\* an integer in 0..5, whether derived from the seed or given by the caller.
C19_VariationInRange ==
    (call.fn \in {"motif_mark", "generateMotifMark", "chosen", "adjacent"} /\ ret # << >>) =>
        \A k \in 1..Len(ret[1].variation) :
            /\ ret[1].variation[k][2] = 1
            /\ ret[1].variation[k][1] \in 0..5

\* the pieces of "<text"
TextTag == <<Chr("<"), Chr("t"), Chr("e"), Chr("x"), Chr("t")>>

\* does the text hold "<text" somewhere?
HasTextTag(svg) == \E i \in 1..(Len(svg) - 4) : SubSeq(svg, i, i + 4) = TextTag

\* C20: generateMotifMark returns no SVG that contains "<text": whatever
\* the family, seed, variant and brand_name, it throws or the text returned
\* is without it; it throws when the brand_name contains "<text".
C20_NoTextInMark ==
    (call.fn \in {"motif_mark", "generateMotifMark", "chosen", "adjacent"} /\ ret # << >>) =>
        /\ ~ret[1].thrown =>
               /\ ret[1].mark_svg # << >>
               /\ ~HasTextTag(ret[1].mark_svg)
               /\ ~HasTextTag(Chars(call.brand_name))
        /\ HasTextTag(Chars(call.brand_name)) => ret[1].thrown

\* C20 witness: generateMotifMark, reached with a brand_name that contains
\* "<text" after other characters, has thrown
C20_BrandNameWithTextThrows ==
    /\ call.fn = "generateMotifMark" /\ ret # << >>
    /\ HasTextTag(Chars(call.brand_name))
    /\ call.brand_name[1] # "<"
    /\ IsHexColor(call.primary_hex)
    /\ ret[1].thrown


\* is ret the result of one of the entries to generateMotifMark?
MarkReturned ==
    /\ call.fn \in {"motif_mark", "generateMotifMark", "chosen", "adjacent"}
    /\ ret # << >>
    /\ ~ret[1].thrown

\* the arcs of a mark that carry the full-ring signature `A r r 0 1 1`
FullArcs(arcs) ==
    {<<k, n>> \in (1..Len(arcs)) \X (1..2) :
        /\ n <= Len(arcs[k])
        /\ arcs[k][n].large = 1 /\ arcs[k][n].sweep = 1
        /\ arcs[k][n].rx >= 0 /\ arcs[k][n].ry >= 0}

\* C22 (as stated): a candidate with three or more full-arc signatures is
\* replaced by the mark of the alternate family before it is returned; the
\* marks of orbit, fold and swap carry no such signature, so no returned
\* mark holds three or more of them.
C22_FullArcsRegenerated ==
    MarkReturned => Cardinality(FullArcs(ret[1].arcs)) < 3

\* the words of a name: its maximal runs of characters other than blanks
RECURSIVE WordsOf(_, _)
WordsOf(name, word) ==
    IF name = << >> THEN (IF word = << >> THEN << >> ELSE <<word>>)
    ELSE IF Head(name) = " "
         THEN (IF word = << >> THEN << >> ELSE <<word>>) \o WordsOf(Tail(name), << >>)
         ELSE WordsOf(Tail(name), Append(word, Head(name)))

\* the capital of a letter of the names used
Capital(c) == IF c \in {"a", "A"} THEN "A" ELSE IF c \in {"b", "B"} THEN "B" ELSE c

\* where the path data and the transforms of a returned mark are
PathDataAt(svg) == {i \in 1..Len(svg) : svg[i].k = "d"}

TransformsAt(svg) == {i \in 1..Len(svg) : svg[i] = Lit(" transform=\"")}

\* C23: a monogram-interlock mark made with the glyph provider working has
\* one glyph path and no transform when the name is one word or its first
\* two words begin with the same letter whatever the case, and two glyph
\* paths, each with a transform, of the first letters of the first and the
\* second word when these differ.
C23_MonogramPaths ==
    (MarkReturned /\ ret[1].builder = "monogram-interlock" /\ ret[1].arcs = << >>
       /\ WordsOf(call.brand_name, << >>) # << >>) =>
        LET words == WordsOf(call.brand_name, << >>)
            svg   == ret[1].mark_svg
            one   == Len(words) = 1 \/ Capital(words[1][1]) = Capital(words[2][1])
        IN  IF one
            THEN /\ Cardinality(PathDataAt(svg)) = 1
                 /\ TransformsAt(svg) = {}
                 /\ \A i \in PathDataAt(svg) : svg[i].v = Capital(words[1][1])
            ELSE /\ Cardinality(PathDataAt(svg)) = 2
                 /\ Cardinality(TransformsAt(svg)) = 2
                 /\ \E i, j \in PathDataAt(svg) :
                        /\ i < j
                        /\ svg[i].v = Capital(words[1][1])
                        /\ svg[j].v = Capital(words[2][1])

\* C23 witness: the monogram of a name of three words in blanks, whose
\* first two words begin with B and A, is returned with two glyph paths
C23_TwoInitials ==
    /\ MarkReturned /\ ret[1].builder = "monogram-interlock" /\ ret[1].arcs = << >>
    /\ call.brand_name = <<" ", "b", " ", " ", "a", " ", "t">>
    /\ Cardinality(PathDataAt(ret[1].mark_svg)) = 2

\* Is the subpath a plain full circle: two half turns of one radius from a
\* point to the opposite point and back?
IsFullCircle(sub) ==
    /\ Len(sub) = 2
    /\ sub[1].to = sub[2].from /\ sub[2].to = sub[1].from
    /\ sub[1].rx = sub[1].ry /\ sub[2].rx = sub[1].rx /\ sub[2].ry = sub[1].rx
    /\ sub[1].sweep = sub[2].sweep
    /\ (sub[1].to[1] - sub[1].from[1]) * (sub[1].to[1] - sub[1].from[1])
         + (sub[1].to[2] - sub[1].from[2]) * (sub[1].to[2] - sub[1].from[2])
         = 4 * sub[1].rx * sub[1].rx

\* the centre of a full circle, doubled
Centre2(sub) == <<sub[1].from[1] + sub[1].to[1], sub[1].from[2] + sub[1].to[2]>>

\* C24 (as stated): when the glyph provider fails, the monogram builder
\* returns two shapes offset from each other, none of them a plain full
\* circle.
C24_FallbackNotPlainCircle ==
    (MarkReturned /\ ret[1].builder = "monogram-interlock" /\ ret[1].arcs # << >>) =>
        /\ Len(ret[1].arcs) = 2
        /\ \A k \in 1..Len(ret[1].arcs) : ~IsFullCircle(ret[1].arcs[k])
        /\ Centre2(ret[1].arcs[1]) # Centre2(ret[1].arcs[2])


\* the sum of the squared differences of every two advances, which is the
\* variance times the square of the number of advances
RECURSIVE PairDeviation(_)
PairDeviation(list) ==
    IF Len(list) < 2 THEN 0
    ELSE SumSeq([k \in 1..(Len(list) - 1) |->
                    (list[1] - list[k + 1]) * (list[1] - list[k + 1])])
         + PairDeviation(Tail(list))

\* the lists of as many advances and the same mean as the list evaluated
\* whose variance is strictly larger
MoreUneven ==
    {b \in AdvanceLists :
        /\ Len(b) = Len(call.advances)
        /\ SumSeq(b) = SumSeq(call.advances)
        /\ PairDeviation(b) > PairDeviation(call.advances)}

\* C25 (amended): of two lists of as many advances and the same mean, the
\* one of larger variance gets a spacingConsistency that is not larger; it
\* is strictly smaller when the mean is positive, the other list scores
\* above 0 and the ratios stddev / mean differ by 0.0005 or more.
C25_SpacingNotLarger ==
    (call.fn = "runWordmarkEvaluator" /\ ret # << >>) =>
        \A b \in MoreUneven :
            /\ SpacingConsistency(b) <= ret[1].spacingConsistency
            /\ (/\ SumSeq(b) > 0
                /\ ret[1].spacingConsistency > 0
                /\ FloorSqrt(16000000 * PairDeviation(b))
                     - CeilSqrt(16000000 * PairDeviation(call.advances))
                       >= 2 * SumSeq(b))
               => SpacingConsistency(b) < ret[1].spacingConsistency

\* C25 witness: a list of positive mean has been scored above 0, and a list
\* of the same mean and larger variance scores strictly less
C25_UnevenScoresLess ==
    /\ call.fn = "runWordmarkEvaluator" /\ ret # << >>
    /\ ret[1].spacingConsistency > 0
    /\ \E b \in MoreUneven :
           /\ SpacingConsistency(b) > 0
           /\ SpacingConsistency(b) < ret[1].spacingConsistency

\* C25 (as stated): of two lists of as many advances and the same mean, the
\* one of strictly larger variance gets a strictly smaller
\* spacingConsistency.
C25_SpacingStrictlySmaller ==
    (call.fn = "runWordmarkEvaluator" /\ ret # << >>) =>
        \A b \in MoreUneven : SpacingConsistency(b) < ret[1].spacingConsistency


\* the score a selection compares, of the candidate generated as the i-th;
\* -1 for an engine run that raised
ScoreOf(i) ==
    IF call.fn = "bestCandidate" THEN call.items[i]
    ELSE IF call.fn = "bestWordmark" THEN scoreReadability(call.items[i])
    ELSE IF call.items[i].ok THEN call.items[i].totalScore ELSE 0 - 1

\* the candidates of the highest score
TopScored ==
    {i \in 1..Len(call.items) :
        ScoreOf(i) >= 0 /\ \A j \in 1..Len(call.items) : ScoreOf(j) <= ScoreOf(i)}

\* C26: the best motif candidate, the best tracking variant and the first
\* entry of the ranking of runWordmarkVariants are each the candidate
\* generated first among those of the highest score.
C26_EarliestOfTheBest ==
    (call.fn \in {"bestCandidate", "bestWordmark", "runWordmarkVariants"}
       /\ ret # << >> /\ TopScored # {}) =>
        /\ ret[1].chosen \in TopScored
        /\ \A i \in TopScored : ret[1].chosen <= i

\* C26 witness: runWordmarkVariants has ranked runs of which the first
\* raised and two later ones share the highest score
C26_TieAfterFailedRun ==
    /\ call.fn = "runWordmarkVariants" /\ ret # << >>
    /\ ~call.items[1].ok
    /\ Cardinality(TopScored) >= 2
    /\ \E i \in 1..Len(call.items) : call.items[i].ok /\ i \notin TopScored /\ i < ret[1].chosen
    /\ ret[1].chosen \in TopScored

\* the copies of the caller's glyph runs a pass starts from: the paths
\* scaled about cx when compression is not 1
FreshCopy ==
    [n \in 1..Len(base.glyphs) |->
        IF planNorm.boldness.compression[1] = planNorm.boldness.compression[2]
        THEN base.glyphs[n]
        ELSE [base.glyphs[n] EXCEPT
                !.path_d = scalePathX(base.glyphs[n].path_d, planNorm.boldness.compression,
                                      CenterX(base))]]

\* the rational q2 is q times a / b
IsTimes(q2, q, a, b) == q2[1] * q[2] * b = q[1] * a * q2[2]

\* the device d2 is the device d with its magnitudes raised for the retry
\* and nothing else changed
OnlyMagnified(d2, d) ==
    /\ DOMAIN d2 = DOMAIN d
    /\ d2.kind = d.kind /\ d2.target = d.target
    /\ d.kind = "notch_cut" =>
          /\ d2.letter = d.letter /\ d2.side = d.side
          /\ IsTimes(d2.depth, d.depth, 6, 5) /\ IsTimes(d2.width, d.width, 6, 5)
    /\ d.kind = "seam_cut" =>
          /\ d2.letter = d.letter /\ d2.angle_deg = d.angle_deg /\ d2.offset = d.offset
          /\ IsTimes(d2.thickness, d.thickness, 6, 5)
    /\ d.kind = "ligature_bridge" =>
          /\ d2.from = d.from /\ d2.to = d.to /\ d2.y_pos = d.y_pos
          /\ IsTimes(d2.thickness, d.thickness, 23, 20)

\* the working glyphs and the used set of a pass
GlyphsOf(pass) == IF pass = "first" THEN glyphs ELSE glyphs2

UsedOf(pass) == IF pass = "first" THEN used ELSE used2

\* a pass is the device loop run from the fresh copies and no used index:
\* each iteration starts where the one before ended, and the iteration
\* that led here is the loop body on its device
PassFromFresh(pass) ==
    /\ \A n \in 1..Len(log[pass]) :
          log[pass][n].before = (IF n = 1 THEN FreshCopy ELSE log[pass][n - 1].after)
    /\ \A n \in Latest(pass) :
          /\ GlyphsOf(pass) = log[pass][n].after
          /\ UsedOf(pass) = UsedBefore(pass, n + 1)
          /\ log[pass][n].after =
                DeviceStep(log[pass][n].before, UsedBefore(pass, n), log[pass][n].device).glyphs

\* C27: the retry starts from fresh copies of the caller's glyphs
\* (compressed again when compression is not 1) and an empty used set, so
\* that a glyph the retry did not consume has its fresh outline whatever the
\* first pass did to it; both passes are the same loop, and the n-th device
\* of the retry is the n-th device of the plan with notch depth and width
\* times 1.2, seam thickness times 1.2, bridge thickness times 1.15 and
\* every other field unchanged.
C27_RetryStartsAfresh ==
    /\ pc = "retry" /\ dev = 1 => glyphs2 = FreshCopy /\ used2 = {}
    /\ \A n \in 1..Len(log.first) : log.first[n].device = planNorm.devices[n]
    /\ \A n \in 1..Len(log.retry) : OnlyMagnified(log.retry[n].device, planNorm.devices[n])
    /\ PassFromFresh("first") /\ PassFromFresh("retry")
    /\ pc \in {"retry", "done"} /\ log.retried =>
          /\ used2 = UsedBefore("retry", Len(log.retry) + 1)
          /\ \A i \in 1..Len(glyphs2) :
                i \notin used2 => glyphs2[i].path_d = FreshCopy[i].path_d

\* C27 witness: a call has returned the retry's path; one of its devices
\* was applied in both passes, to the same fresh glyphs, and cut them
\* differently
C27_BothPassesApplied ==
    /\ pc = "done"
    /\ log.retried
    /\ result.wordmark_path_d = Joined(glyphs2)
    /\ \E n \in 1..Len(log.retry) :
          /\ log.first[n].applied /\ log.retry[n].applied
          /\ log.first[n].before = log.retry[n].before
          /\ log.first[n].after # log.first[n].before
          /\ log.first[n].after # log.retry[n].after

\* the manifest as the iterations of the first pass leave it: one entry per
\* device visited, with the device's kind, its target and whether the first
\* pass applied it
FirstPassManifest ==
    [n \in 1..Len(log.first) |->
        [device |-> log.first[n].device.kind,
         target |-> IF IsSingle(log.first[n].device) THEN <<log.first[n].device.letter>>
                    ELSE <<log.first[n].device.from, "-", log.first[n].device.to>>,
         applied |-> log.first[n].applied]]

\* C28: the manifest returned is the one the first pass built: through the
\* retry and at the return it has one entry per device with the first
\* pass's applied flag, whichever pass the returned path and metrics come
\* from and whatever the retry's devices did.
C28_ManifestOfFirstPass ==
    /\ pc \in {"devices", "retry", "done"} => manifest = FirstPassManifest
    /\ pc \in {"retry", "done"} => Len(manifest) = Len(planNorm.devices)
    /\ pc = "done" => result.manifest = FirstPassManifest

\* C28 witness: a call has returned the retry's path and metrics; one of
\* its devices was applied in the first pass and raised in the retry, and
\* the manifest returned reports it applied
C28_AppliedThenThrew ==
    /\ pc = "done"
    /\ log.retried
    /\ result.wordmark_path_d = Joined(glyphs2)
    /\ result.metrics = MetricsOf(pathArea(base.path_d), pathArea(Joined(glyphs2)))
    /\ \E n \in 1..Len(log.retry) :
          /\ log.first[n].applied /\ ~log.first[n].threw
          /\ log.retry[n].threw /\ ~log.retry[n].applied
          /\ result.manifest[n].applied

\* a bridge whose two letters are one letter, whatever the case
SelfBridge(d) == d.kind = "ligature_bridge" /\ toLowerCase(d.from) = toLowerCase(d.to)

\* the glyphs of a logged iteration that carry the letter and were not
\* consumed before it
UnusedCarrying(pass, n, letter) ==
    {i \in 1..Len(log[pass][n].before) :
        /\ toLowerCase(log[pass][n].before[i].char) = toLowerCase(letter)
        /\ i \notin UsedBefore(pass, n)}

\* C29: a ligature bridge whose from and to letters are equal, whatever
\* the case, is never applied, in either pass: both lookups give the same
\* index (the first unused glyph carrying the letter, or none), no
\* geometry is tried, no glyph changes or is consumed, and the manifest
\* records the device with applied = false.
C29_SelfBridgeNotApplied ==
    \A pass \in Passes : \A n \in 1..Len(log[pass]) :
        SelfBridge(log[pass][n].device) =>
            /\ log[pass][n].ia = log[pass][n].ib
            /\ log[pass][n].ia =
                  (IF UnusedCarrying(pass, n, log[pass][n].device.from) = {} THEN 0
                   ELSE SetMin(UnusedCarrying(pass, n, log[pass][n].device.from)))
            /\ ~log[pass][n].applied /\ ~log[pass][n].threw
            /\ log[pass][n].after = log[pass][n].before
            /\ UsedBefore(pass, n + 1) = UsedBefore(pass, n)
            /\ n \in Latest(pass) => UsedOf(pass) = UsedBefore(pass, n)
            /\ pass = "first" =>
                  manifest[n] = [device |-> "ligature_bridge",
                                 target |-> <<log[pass][n].device.from, "-",
                                              log[pass][n].device.to>>,
                                 applied |-> FALSE]

\* C29 witness: a call has returned whose plan bridges "a" to "A"; when the
\* first pass came to the bridge two unused glyphs carried the letter, and
\* the manifest returned records the bridge as not applied
C29_TwoGlyphsOneLetter ==
    /\ pc = "done"
    /\ \E n \in 1..Len(log.first) :
          /\ SelfBridge(log.first[n].device)
          /\ plan.devices[n].from # plan.devices[n].to
          /\ Cardinality(UnusedCarrying("first", n, log.first[n].device.from)) >= 2
          /\ log.first[n].ia > 0
          /\ ~result.manifest[n].applied

\* the first-pass iterations that emptied a glyph that had an outline
Eliminating ==
    {n \in 1..Len(log.first) :
        \E i \in 1..Len(log.first[n].before) :
            /\ log.first[n].before[i].path_d # << >>
            /\ log.first[n].after[i].path_d = << >>}

\* no glyph of either pass that ran has an outline left
AllGlyphsEmpty ==
    /\ \A i \in 1..Len(glyphs) : glyphs[i].path_d = << >>
    /\ log.retried => \A i \in 1..Len(glyphs2) : glyphs2[i].path_d = << >>

\* C30: a call on a base whose path_d is not empty never returns an empty
\* wordmark_path_d; when the devices left no glyph outline in the first
\* pass and in the retry (if one ran), the path returned is base.path_d,
\* the metrics returned are those of base.path_d against itself, and the
\* manifest returned still reports every device that emptied a glyph as
\* applied.
C30_NeverEmptyPath ==
    (pc = "done" /\ base.path_d # << >>) =>
        /\ result.wordmark_path_d # << >>
        /\ AllGlyphsEmpty =>
              /\ result.wordmark_path_d = base.path_d
              /\ result.metrics = MetricsOf(pathArea(base.path_d), pathArea(base.path_d))
              /\ \A n \in Eliminating : result.manifest[n].applied

\* C30 witness: a call has returned after a retry; in both passes the
\* devices left no glyph outline, the path returned is base.path_d and the
\* manifest reports an eliminating device as applied
C30_EverythingCutAway ==
    /\ pc = "done"
    /\ log.retried
    /\ Len(log.retry) = Len(planNorm.devices)
    /\ AllGlyphsEmpty
    /\ Eliminating # {}
    /\ result.wordmark_path_d = base.path_d
    /\ \E n \in Eliminating : result.manifest[n].applied

====
